---- MODULE Spec2Model ----
(***************************************************************************)
(* The compiler core of scratch-vm: the type lattice, the TypeState, the   *)
(* IROptimizer (analyzer and cast rewriter) over the intermediate          *)
(* representation.                                                         *)
(***************************************************************************)
EXTENDS Integers, Sequences, FiniteSets, TLC

(***************************************************************************)
(* Bounds of the model.                                                    *)
(***************************************************************************)
\* largest magnitude of a finite runtime number, counted in halves
MaxHalf == 4
\* number of blocks of a script
MaxBlocks == 2
\* iterations after which a loop analysis is reported as not terminating
MaxIter == 40

(***************************************************************************)
(* InputType: a type is a set of atoms; a | b is \cup, a & b is \cap.      *)
(***************************************************************************)
NUMBER_POS_INF == {"POS_INF"}
NUMBER_POS_INT == {"POS_INT"}
NUMBER_POS_FRACT == {"POS_FRACT"}
NUMBER_POS_REAL == NUMBER_POS_INT \cup NUMBER_POS_FRACT
NUMBER_POS == NUMBER_POS_REAL \cup NUMBER_POS_INF
NUMBER_ZERO == {"ZERO"}
NUMBER_NEG_ZERO == {"NEG_ZERO"}
NUMBER_ANY_ZERO == NUMBER_ZERO \cup NUMBER_NEG_ZERO
NUMBER_NEG_INT == {"NEG_INT"}
NUMBER_NEG_FRACT == {"NEG_FRACT"}
NUMBER_NEG_REAL == NUMBER_NEG_INT \cup NUMBER_NEG_FRACT
NUMBER_NEG_INF == {"NEG_INF"}
NUMBER_NEG == NUMBER_NEG_REAL \cup NUMBER_NEG_INF
NUMBER_NAN == {"NAN"}
NUMBER_INF == NUMBER_POS_INF \cup NUMBER_NEG_INF
NUMBER_FRACT == NUMBER_POS_FRACT \cup NUMBER_NEG_FRACT
NUMBER_REAL == NUMBER_POS_REAL \cup NUMBER_ANY_ZERO \cup NUMBER_NEG_REAL
NUMBER == NUMBER_REAL \cup NUMBER_INF
NUMBER_OR_NAN == NUMBER \cup NUMBER_NAN
BOOLEAN_TYPE == {"BOOLEAN"}
STRING_TYPE == {"STRING"}
STRING_NUM == {"STRING_NUM"}
ANY == NUMBER_OR_NAN \cup BOOLEAN_TYPE \cup STRING_TYPE \cup STRING_NUM

(***************************************************************************)
(* Runtime numbers.  A finite non-zero number is a count h of halves with  *)
(* 0 < |h| <= MaxHalf; a result beyond MaxHalf overflows to an infinity    *)
(* and a result below one half underflows to a signed zero, as IEEE-754    *)
(* arithmetic does at the ends of the double range.                        *)
(***************************************************************************)
Fin(h) == [k |-> "fin", h |-> h, s |-> ""]
PosZero == [k |-> "pz", h |-> 0, s |-> ""]
NegZero == [k |-> "nz", h |-> 0, s |-> ""]
PosInf == [k |-> "pinf", h |-> 0, s |-> ""]
NegInf == [k |-> "ninf", h |-> 0, s |-> ""]
NaN == [k |-> "nan", h |-> 0, s |-> ""]
Str(s) == [k |-> "str", h |-> 0, s |-> s]

FiniteValues == {Fin(h) : h \in (-MaxHalf..MaxHalf) \ {0}}
NumberValues == FiniteValues \cup {PosZero, NegZero, PosInf, NegInf}

Abs(n) == IF n < 0 THEN -n ELSE n
IsZero(v) == v.k \in {"pz", "nz"}
IsInf(v) == v.k \in {"pinf", "ninf"}
IsNegative(v) == v.k \in {"nz", "ninf"} \/ (v.k = "fin" /\ v.h < 0)
SignedZero(neg) == IF neg THEN NegZero ELSE PosZero
SignedInf(neg) == IF neg THEN NegInf ELSE PosInf
\* a magnitude in halves with a sign, rounded into the representable range
Rounded(neg, mag) ==
    IF mag = 0 THEN SignedZero(neg)
    ELSE IF mag > MaxHalf THEN SignedInf(neg)
    ELSE Fin(IF neg THEN -mag ELSE mag)

\* the atom that characterizes a runtime number
AtomOf(v) ==
    CASE v.k = "nan" -> "NAN"
      [] v.k = "pinf" -> "POS_INF"
      [] v.k = "ninf" -> "NEG_INF"
      [] v.k = "pz" -> "ZERO"
      [] v.k = "nz" -> "NEG_ZERO"
      [] v.k = "fin" /\ v.h > 0 -> IF v.h % 2 = 0 THEN "POS_INT" ELSE "POS_FRACT"
      [] v.k = "fin" /\ v.h < 0 -> IF v.h % 2 = 0 THEN "NEG_INT" ELSE "NEG_FRACT"
      [] OTHER -> "STRING"

JsAdd(a, b) ==
    CASE a.k = "nan" \/ b.k = "nan" -> NaN
      [] IsInf(a) /\ IsInf(b) -> IF a.k = b.k THEN a ELSE NaN
      [] IsInf(a) -> a
      [] IsInf(b) -> b
      [] IsZero(a) /\ IsZero(b) -> IF a.k = "nz" /\ b.k = "nz" THEN NegZero ELSE PosZero
      [] IsZero(a) -> b
      [] IsZero(b) -> a
      [] OTHER -> Rounded(a.h + b.h < 0, Abs(a.h + b.h))

JsNegate(a) ==
    CASE a.k = "nan" -> NaN
      [] a.k = "pinf" -> NegInf
      [] a.k = "ninf" -> PosInf
      [] a.k = "pz" -> NegZero
      [] a.k = "nz" -> PosZero
      [] OTHER -> Fin(-a.h)

JsSubtract(a, b) == JsAdd(a, JsNegate(b))

JsMultiply(a, b) ==
    LET neg == IsNegative(a) # IsNegative(b) IN
    CASE a.k = "nan" \/ b.k = "nan" -> NaN
      [] (IsInf(a) /\ IsZero(b)) \/ (IsZero(a) /\ IsInf(b)) -> NaN
      [] IsInf(a) \/ IsInf(b) -> SignedInf(neg)
      [] IsZero(a) \/ IsZero(b) -> SignedZero(neg)
      [] OTHER -> Rounded(neg, (Abs(a.h) * Abs(b.h)) \div 2)

JsDivide(a, b) ==
    LET neg == IsNegative(a) # IsNegative(b) IN
    CASE a.k = "nan" \/ b.k = "nan" -> NaN
      [] IsInf(a) /\ IsInf(b) -> NaN
      [] IsZero(a) /\ IsZero(b) -> NaN
      [] IsInf(a) -> SignedInf(neg)
      [] IsInf(b) -> SignedZero(neg)
      [] IsZero(b) -> SignedInf(neg)
      [] IsZero(a) -> SignedZero(neg)
      [] OTHER -> Rounded(neg, (2 * Abs(a.h)) \div Abs(b.h))

(***************************************************************************)
(* IROptimizer.analyzeInputBlock: the arithmetic cases.  Has(t, m) is the  *)
(* truth of (t & m).                                                       *)
(***************************************************************************)
Has(t, m) == (t \cap m) # {}
If(c, t) == IF c THEN t ELSE {}

\* AnalyzeAdd without the test for the sum of opposite infinities
AnalyzeAddNoNaN(leftType, rightType) ==
    LET canBeFract == Has(leftType, NUMBER_FRACT) \/ Has(rightType, NUMBER_FRACT)
        canBePos == Has(leftType, NUMBER_POS) \/ Has(rightType, NUMBER_POS)
        canBeNeg == Has(leftType, NUMBER_NEG) \/ Has(rightType, NUMBER_NEG)
    IN  If(canBePos, NUMBER_POS_INT \cup NUMBER_POS_INF)
        \cup If(canBePos /\ canBeFract, NUMBER_POS_FRACT)
        \cup If(canBeNeg, NUMBER_NEG_INT \cup NUMBER_NEG_INF)
        \cup If(canBeNeg /\ canBeFract, NUMBER_NEG_FRACT)
        \cup If(Has(leftType, NUMBER_REAL) /\ Has(rightType, NUMBER_REAL), NUMBER_ZERO)
        \cup If(Has(leftType, NUMBER_NEG_ZERO) /\ Has(rightType, NUMBER_NEG_ZERO),
                NUMBER_NEG_ZERO)

AnalyzeAdd(leftType, rightType) ==
    LET canBeNaN ==
            \/ Has(leftType, NUMBER_POS_INF) /\ Has(rightType, NUMBER_NEG_INF)
            \/ Has(leftType, NUMBER_NEG_INF) /\ Has(rightType, NUMBER_POS_INF)
        canBeFract == Has(leftType, NUMBER_FRACT) \/ Has(rightType, NUMBER_FRACT)
        canBePos == Has(leftType, NUMBER_POS) \/ Has(rightType, NUMBER_POS)
        canBeNeg == Has(leftType, NUMBER_NEG) \/ Has(rightType, NUMBER_NEG)
        canBeZero ==
            \/ Has(leftType, NUMBER_POS_REAL) /\ Has(rightType, NUMBER_NEG_REAL)
            \/ Has(leftType, NUMBER_NEG_REAL) /\ Has(rightType, NUMBER_POS_REAL)
            \/ Has(leftType, NUMBER_ZERO) /\ Has(rightType, NUMBER_ZERO)
            \/ Has(leftType, NUMBER_ZERO) /\ Has(rightType, NUMBER_NEG_ZERO)
            \/ Has(leftType, NUMBER_NEG_ZERO) /\ Has(rightType, NUMBER_ZERO)
        canBeNegZero == Has(leftType, NUMBER_NEG_ZERO) /\ Has(rightType, NUMBER_NEG_ZERO)
    IN  If(canBeNaN, NUMBER_NAN)
        \cup If(canBePos, NUMBER_POS_INT \cup NUMBER_POS_INF)
        \cup If(canBePos /\ canBeFract, NUMBER_POS_FRACT)
        \cup If(canBeNeg, NUMBER_NEG_INT \cup NUMBER_NEG_INF)
        \cup If(canBeNeg /\ canBeFract, NUMBER_NEG_FRACT)
        \cup If(canBeZero, NUMBER_ZERO)
        \cup If(canBeNegZero, NUMBER_NEG_ZERO)

AnalyzeSubtract(leftType, rightType) ==
    LET canBeNaN ==
            \/ Has(leftType, NUMBER_POS_INF) /\ Has(rightType, NUMBER_POS_INF)
            \/ Has(leftType, NUMBER_NEG_INF) /\ Has(rightType, NUMBER_NEG_INF)
        canBeFract == Has(leftType, NUMBER_FRACT) \/ Has(rightType, NUMBER_FRACT)
        canBePos == Has(leftType, NUMBER_POS) \/ Has(rightType, NUMBER_NEG)
        canBeNeg == Has(leftType, NUMBER_NEG) \/ Has(rightType, NUMBER_POS)
        canBeZero ==
            \/ Has(leftType, NUMBER_POS_REAL) /\ Has(rightType, NUMBER_POS_REAL)
            \/ Has(leftType, NUMBER_NEG_REAL) /\ Has(rightType, NUMBER_NEG_REAL)
            \/ Has(leftType, NUMBER_ZERO) /\ Has(rightType, NUMBER_ZERO)
            \/ Has(leftType, NUMBER_ZERO) /\ Has(rightType, NUMBER_NEG_ZERO)
            \/ Has(leftType, NUMBER_NEG_ZERO) /\ Has(rightType, NUMBER_NEG_ZERO)
        canBeNegZero == Has(leftType, NUMBER_NEG_ZERO) /\ Has(rightType, NUMBER_ZERO)
    IN  If(canBeNaN, NUMBER_NAN)
        \cup If(canBePos, NUMBER_POS_INT \cup NUMBER_POS_INF)
        \cup If(canBePos /\ canBeFract, NUMBER_POS_FRACT)
        \cup If(canBeNeg, NUMBER_NEG_INT \cup NUMBER_NEG_INF)
        \cup If(canBeNeg /\ canBeFract, NUMBER_NEG_FRACT)
        \cup If(canBeZero, NUMBER_ZERO)
        \cup If(canBeNegZero, NUMBER_NEG_ZERO)

AnalyzeMultiply(leftType, rightType) ==
    LET canBeNaN ==
            \/ Has(leftType, NUMBER_POS_INF) /\ Has(rightType, NUMBER_ANY_ZERO)
            \/ Has(leftType, NUMBER_ANY_ZERO) /\ Has(rightType, NUMBER_POS_INF)
        canBeFract == Has(leftType, NUMBER_FRACT) \/ Has(rightType, NUMBER_FRACT)
        canBePos ==
            \/ Has(leftType, NUMBER_POS) /\ Has(rightType, NUMBER_POS)
            \/ Has(leftType, NUMBER_NEG) /\ Has(rightType, NUMBER_NEG)
        canBeNeg ==
            \/ Has(leftType, NUMBER_POS) /\ Has(rightType, NUMBER_NEG)
            \/ Has(leftType, NUMBER_NEG) /\ Has(rightType, NUMBER_POS)
        canBeZero ==
            \/ Has(leftType, NUMBER_ZERO) /\ Has(rightType, NUMBER_POS_REAL)
            \/ Has(leftType, NUMBER_NEG_ZERO) /\ Has(rightType, NUMBER_NEG_REAL)
            \/ Has(leftType, NUMBER_POS_REAL) /\ Has(rightType, NUMBER_ZERO)
            \/ Has(leftType, NUMBER_NEG_REAL) /\ Has(rightType, NUMBER_NEG_ZERO)
            \/ Has(leftType, NUMBER_POS_REAL) /\ Has(rightType, NUMBER_POS_REAL)
            \/ Has(leftType, NUMBER_NEG_REAL) /\ Has(rightType, NUMBER_NEG_REAL)
        canBeNegZero ==
            \/ Has(leftType, NUMBER_NEG_ZERO) /\ Has(rightType, NUMBER_POS_REAL)
            \/ Has(leftType, NUMBER_ZERO) /\ Has(rightType, NUMBER_NEG_REAL)
            \/ Has(leftType, NUMBER_POS_REAL) /\ Has(rightType, NUMBER_NEG_ZERO)
            \/ Has(leftType, NUMBER_NEG_REAL) /\ Has(rightType, NUMBER_ZERO)
            \/ Has(leftType, NUMBER_NEG_REAL) /\ Has(rightType, NUMBER_POS_REAL)
            \/ Has(leftType, NUMBER_POS_REAL) /\ Has(rightType, NUMBER_NEG_REAL)
    IN  If(canBeNaN, NUMBER_NAN)
        \cup If(canBePos, NUMBER_POS_INT \cup NUMBER_POS_INF)
        \cup If(canBePos /\ canBeFract, NUMBER_POS_FRACT)
        \cup If(canBeNeg, NUMBER_NEG_INT \cup NUMBER_NEG_INF)
        \cup If(canBeNeg /\ canBeFract, NUMBER_NEG_FRACT)
        \cup If(canBeZero, NUMBER_ZERO)
        \cup If(canBeNegZero, NUMBER_NEG_ZERO)

AnalyzeDivide(leftType, rightType) ==
    LET canBeNaN ==
            \/ Has(leftType, NUMBER_REAL) /\ Has(rightType, NUMBER_ZERO)
            \/ Has(leftType, NUMBER_INF) /\ Has(rightType, NUMBER_INF)
        canBePos ==
            \/ Has(leftType, NUMBER_POS) /\ Has(rightType, NUMBER_POS)
            \/ Has(leftType, NUMBER_NEG) /\ Has(rightType, NUMBER_NEG)
        canBeNeg ==
            \/ Has(leftType, NUMBER_POS) /\ Has(rightType, NUMBER_NEG)
            \/ Has(leftType, NUMBER_NEG) /\ Has(rightType, NUMBER_POS)
        canBeZero ==
            \/ Has(leftType, NUMBER_ZERO) /\ Has(rightType, NUMBER_POS)
            \/ Has(leftType, NUMBER_NEG_ZERO) /\ Has(rightType, NUMBER_NEG)
            \/ Has(leftType, NUMBER_POS_REAL) /\ Has(rightType, NUMBER_POS_REAL)
            \/ Has(leftType, NUMBER_NEG_REAL) /\ Has(rightType, NUMBER_NEG_REAL)
        canBeNegZero ==
            \/ Has(leftType, NUMBER_NEG_ZERO) /\ Has(rightType, NUMBER_POS)
            \/ Has(leftType, NUMBER_ZERO) /\ Has(rightType, NUMBER_NEG)
            \/ Has(leftType, NUMBER_NEG_REAL) /\ Has(rightType, NUMBER_POS_REAL)
            \/ Has(leftType, NUMBER_POS_REAL) /\ Has(rightType, NUMBER_NEG_REAL)
    IN  If(canBeNaN, NUMBER_NAN)
        \cup If(canBePos, NUMBER_POS)
        \cup If(Has(leftType, NUMBER_NEG_INF) /\ Has(rightType, NUMBER_ZERO), NUMBER_NEG_INF)
        \cup If(Has(leftType, NUMBER_POS_INF) /\ Has(rightType, NUMBER_NEG_ZERO), NUMBER_NEG_INF)
        \cup If(Has(leftType, NUMBER_POS_INF) /\ Has(rightType, NUMBER_ZERO), NUMBER_POS_INF)
        \cup If(Has(leftType, NUMBER_NEG_INF) /\ Has(rightType, NUMBER_NEG_ZERO), NUMBER_POS_INF)
        \cup If(canBeNeg, NUMBER_NEG)
        \cup If(canBeZero, NUMBER_ZERO)
        \cup If(canBeNegZero, NUMBER_NEG_ZERO)

(***************************************************************************)
(* TypeState: variables maps a variable name to a type.  A name that is    *)
(* not a key of the object maps to Absent.                                 *)
(***************************************************************************)
Vars == {"x", "y"}
Absent == {"absent"}
NewTypeState == [v \in Vars |-> Absent]
\* the value of a block's entryState / exitState field that was never set
Undefined == [v \in Vars |-> {"undefined"}]

getVariableType(state, variable) ==
    IF state[variable] = Absent THEN ANY ELSE state[variable]

\* [state, modified]
setVariableType(state, variable, type) ==
    IF getVariableType(state, variable) = type
    THEN [state |-> state, modified |-> FALSE]
    ELSE [state |-> [state EXCEPT ![variable] = type], modified |-> TRUE]

TypeStateClear(state) ==
    [state |-> NewTypeState,
     modified |-> \E v \in Vars : state[v] # Absent /\ state[v] # ANY]

TypeStateClone(state) == state

\* or() without its second loop: a key of this state alone keeps its type
OrVariableFirstLoopOnly(mine, theirs) ==
    IF theirs = Absent THEN mine
    ELSE (IF mine = Absent THEN ANY ELSE mine) \cup theirs

\* the type of one variable after this.or(other)
OrVariable(mine, theirs) ==
    LET currentType == IF mine = Absent THEN ANY ELSE mine
        joined == IF theirs = Absent THEN mine ELSE currentType \cup theirs
    IN  IF joined = Absent THEN Absent
        ELSE IF (theirs = Absent \/ theirs = {}) /\ joined # ANY THEN ANY
        ELSE joined

\* or() that reports a change but does not store the joined types
TypeStateOrNotStored(state, other) ==
    [state |-> state,
     modified |-> \E v \in Vars :
        other[v] # Absent /\ getVariableType(state, v) # other[v]]

\* or() that overwrites the types of this state by those of the other
TypeStateOrOverwrite(state, other) ==
    [state |-> [v \in Vars |-> IF other[v] = Absent THEN state[v] ELSE other[v]],
     modified |-> \E v \in Vars :
        other[v] # Absent /\ getVariableType(state, v) # other[v]]

TypeStateOr(state, other) ==
    LET firstLoop == \E v \in Vars :
            /\ other[v] # Absent
            /\ getVariableType(state, v) # getVariableType(state, v) \cup other[v]
        merged == [v \in Vars |-> OrVariable(state[v], other[v])]
        secondLoop == \E v \in Vars :
            /\ (state[v] # Absent \/ other[v] # Absent)
            /\ (other[v] = Absent \/ other[v] = {})
            /\ (IF other[v] = Absent THEN state[v]
                ELSE getVariableType(state, v) \cup other[v]) # ANY
    IN  [state |-> merged, modified |-> firstLoop \/ secondLoop]

(***************************************************************************)
(* IntermediateInput and IntermediateStackBlock.  inputs holds the child   *)
(* inputs in order (target, or left and right); stacks holds the nested    *)
(* stacks (do, or whenTrue and whenFalse).  An IntermediateStack is the    *)
(* sequence of its blocks; a null stack is the empty sequence.             *)
(***************************************************************************)
NoValue == Str("")
IntermediateInput(opcode, type, variable, value, inputs) ==
    [opcode |-> opcode, type |-> type, variable |-> variable,
     value |-> value, inputs |-> inputs]
IntermediateStackBlock(opcode, variable, inputs, stacks, yields) ==
    [opcode |-> opcode, variable |-> variable, inputs |-> inputs,
     stacks |-> stacks, yields |-> yields,
     entryState |-> Undefined, exitState |-> Undefined]

CastNumber(innerType) == IF Has(innerType, NUMBER) THEN innerType ELSE NUMBER
CastNumberOrNaN(innerType) ==
    IF Has(innerType, NUMBER_OR_NAN) THEN innerType ELSE NUMBER_OR_NAN

RECURSIVE analyzeInputBlock(_, _)
analyzeInputBlock(inputBlock, state) ==
    LET inputs == inputBlock.inputs IN
    CASE inputBlock.opcode = "VAR_GET" ->
            getVariableType(state, inputBlock.variable)
      [] inputBlock.opcode = "CAST_NUMBER" ->
            CastNumber(analyzeInputBlock(inputs[1], state))
      [] inputBlock.opcode = "CAST_NUMBER_OR_NAN" ->
            CastNumberOrNaN(analyzeInputBlock(inputs[1], state))
      [] inputBlock.opcode = "OP_ADD" ->
            AnalyzeAdd(analyzeInputBlock(inputs[1], state),
                       analyzeInputBlock(inputs[2], state))
      [] inputBlock.opcode = "OP_SUBTRACT" ->
            AnalyzeSubtract(analyzeInputBlock(inputs[1], state),
                            analyzeInputBlock(inputs[2], state))
      [] inputBlock.opcode = "OP_MULTIPLY" ->
            AnalyzeMultiply(analyzeInputBlock(inputs[1], state),
                            analyzeInputBlock(inputs[2], state))
      [] inputBlock.opcode = "OP_DIVIDE" ->
            AnalyzeDivide(analyzeInputBlock(inputs[1], state),
                          analyzeInputBlock(inputs[2], state))
      [] OTHER -> inputBlock.type

(***************************************************************************)
(* Bookkeeping of the loop analyses run inside one call: runs is the       *)
(* largest number of times one analyzeLoopedStack analyzed its body, over  *)
(* tells that one of them analyzed it more than |atoms| * |vars| times,    *)
(* over1 more than |atoms| * |vars| + 1 times, stuck that one was still    *)
(* changing after MaxIter analyses.                                        *)
(***************************************************************************)
NoLoops == [runs |-> 0, over |-> FALSE, over1 |-> FALSE, stuck |-> FALSE]
JoinLoops(a, b) ==
    [runs |-> IF a.runs > b.runs THEN a.runs ELSE b.runs,
     over |-> a.over \/ b.over, over1 |-> a.over1 \/ b.over1,
     stuck |-> a.stuck \/ b.stuck]

RECURSIVE AssignedVars(_)
AssignedVars(stack) ==
    UNION {
        (IF stack[i].opcode = "VAR_SET" THEN {stack[i].variable} ELSE {})
        \cup UNION {AssignedVars(stack[i].stacks[j]) : j \in DOMAIN stack[i].stacks}
        : i \in DOMAIN stack}
Keys(state) == {v \in Vars : state[v] # Absent}
LoopBound(stack, state) ==
    Cardinality(ANY) * Cardinality(Keys(state) \cup AssignedVars(stack))

LoopOpcodes == {"CONTROL_WHILE", "CONTROL_FOR", "CONTROL_REPEAT"}

(***************************************************************************)
(* IROptimizer.analyzeStackBlock, analyzeStack, analyzeLoopedStack.  Each  *)
(* returns the block or stack with its annotations, the threaded state,    *)
(* the returned flag and the loop bookkeeping.                             *)
(***************************************************************************)
RECURSIVE analyzeStackBlock(_, _)
RECURSIVE analyzeStack(_, _)
RECURSIVE analyzeLoopedStack(_, _, _)
RECURSIVE LoopFixedPoint(_, _, _)
RECURSIVE StackTail(_, _)
RECURSIVE LoopJoin(_, _, _)

\* the exit-state bookkeeping of analyzeStack for a block that changed the state
RecordExit(block, state) ==
    IF block.exitState # Undefined
    THEN [block EXCEPT !.exitState = TypeStateOr(block.exitState, state).state]
    ELSE [block EXCEPT !.exitState = TypeStateClone(state)]

\* one iteration of the for loop of analyzeStack after analyzeStackBlock
\* returned r: state.clear() runs only when the block yields and
\* stateChanged is still false
StepResult(stackBlock, r) ==
    LET c == TypeStateClear(r.state)
        cleared == stackBlock.yields /\ ~r.modified
        newState == IF cleared THEN c.state ELSE r.state
        stateChanged == IF cleared THEN c.modified ELSE r.modified
    IN  [block |-> IF stateChanged THEN RecordExit(r.block, newState) ELSE r.block,
         state |-> newState, modified |-> stateChanged, loops |-> r.loops]

\* one iteration of the for loop of analyzeStack
analyzeStackStep(stackBlock, state) ==
    StepResult(stackBlock, analyzeStackBlock(stackBlock, state))

\* analyzeStack: the results of the first iteration h and of the others t
StackResult(h, t) ==
    [stack |-> <<h.block>> \o t.stack, state |-> t.state,
     modified |-> h.modified \/ t.modified,
     loops |-> JoinLoops(h.loops, t.loops)]

\* analyzeStack: the iterations after the first, which returned h
StackTail(stack, h) == StackResult(h, analyzeStack(Tail(stack), h.state))

analyzeStack(stack, state) ==
    IF stack = <<>>
    THEN [stack |-> <<>>, state |-> state, modified |-> FALSE, loops |-> NoLoops]
    ELSE StackTail(stack, analyzeStackStep(Head(stack), state))

\* the do-while of analyzeLoopedStack: the iterations after this one
LoopRest(r, rest) == [rest EXCEPT !.loops = JoinLoops(r.loops, rest.loops)]

\* the do-while of analyzeLoopedStack: state.or(newState) and the loop test,
\* after the body was analyzed with result r for the (n + 1)-th time
LoopJoin(state, n, r) ==
    LET o == TypeStateOr(state, r.state)
    IN  IF o.modified /\ n + 1 < MaxIter
        THEN LoopRest(r, LoopFixedPoint(r.stack, o.state, n + 1))
        ELSE [stack |-> r.stack, state |-> o.state, runs |-> n + 1,
              keepLooping |-> o.modified, loops |-> r.loops]

\* the do-while of analyzeLoopedStack after n analyses of the body
LoopFixedPoint(stack, state, n) ==
    LoopJoin(state, n, analyzeStack(stack, TypeStateClone(state)))

\* analyzeLoopedStack of a yielding loop, cleared by c, its body analyzed as r
YieldingLoop(block, c, r) ==
    [block |-> [block EXCEPT !.entryState = TypeStateClone(c.state),
                             !.exitState = TypeStateClone(c.state),
                             !.stacks = <<r.stack>>],
     state |-> r.state, modified |-> r.modified \/ c.modified,
     loops |-> r.loops]

\* analyzeLoopedStack of a loop that does not yield, its do-while ended as f
FixedLoop(block, f, bound) ==
    [block |-> [block EXCEPT !.entryState = TypeStateClone(f.state),
                             !.stacks = <<f.stack>>],
     state |-> f.state, modified |-> f.keepLooping,
     loops |-> JoinLoops(f.loops,
         [runs |-> f.runs, over |-> f.runs > bound,
          over1 |-> f.runs > bound + 1, stuck |-> f.keepLooping])]

analyzeLoopedStack(stack, state, block) ==
    IF block.yields
    THEN YieldingLoop(block, TypeStateClear(state),
                      analyzeStack(stack, TypeStateClear(state).state))
    ELSE FixedLoop(block, LoopFixedPoint(stack, state, 0), LoopBound(stack, state))

\* analyzeStackBlock VAR_SET, setVariableType returned r
VarSet(stackBlock, r) ==
    [block |-> stackBlock, state |-> r.state, modified |-> r.modified,
     loops |-> NoLoops]

\* analyzeStackBlock CONTROL_IF_ELSE, the branches analyzed as t and f:
\* state.or(trueState) runs only when modified is still false
IfElseJoin(stackBlock, t, f) ==
    LET o == TypeStateOr(f.state, t.state)
    IN  [block |-> [stackBlock EXCEPT !.stacks = <<t.stack, f.stack>>],
         state |-> IF f.modified THEN f.state ELSE o.state,
         modified |-> IF f.modified THEN TRUE ELSE o.modified,
         loops |-> JoinLoops(t.loops, f.loops)]

\* analyzeStackBlock PROCEDURE_CALL, state.clear() returned c
CallCleared(stackBlock, c) ==
    [block |-> stackBlock, state |-> c.state, modified |-> c.modified,
     loops |-> NoLoops]

analyzeStackBlock(stackBlock, state) ==
    CASE stackBlock.opcode = "VAR_SET" ->
            VarSet(stackBlock,
                setVariableType(state, stackBlock.variable,
                    analyzeInputBlock(stackBlock.inputs[1], state)))
      [] stackBlock.opcode \in LoopOpcodes ->
            analyzeLoopedStack(stackBlock.stacks[1], state, stackBlock)
      [] stackBlock.opcode = "CONTROL_IF_ELSE" ->
            IfElseJoin(stackBlock,
                analyzeStack(stackBlock.stacks[1], TypeStateClone(state)),
                analyzeStack(stackBlock.stacks[2], state))
      [] stackBlock.opcode = "PROCEDURE_CALL" ->
            CallCleared(stackBlock, TypeStateClear(state))
      [] OTHER ->
            [block |-> stackBlock, state |-> state, modified |-> FALSE,
             loops |-> NoLoops]

(***************************************************************************)
(* IROptimizer.optimizeInput and optimizeStack.                            *)
(***************************************************************************)
\* (targetType & castType) !== 0 in place of the subset test
IsSometimes(targetType, castType) == (targetType \cap castType) # {}

\* (targetType & castType) === targetType
IsAlways(targetType, castType) == (targetType \cap castType) = targetType

RECURSIVE optimizeInput(_, _)
optimizeInput(input, state) ==
    LET children == [i \in DOMAIN input.inputs |->
                        optimizeInput(input.inputs[i], state)]
        node == [input EXCEPT !.inputs = children]
    IN  CASE input.opcode = "CAST_NUMBER" ->
                IF IsAlways(analyzeInputBlock(children[1], state), NUMBER)
                THEN children[1] ELSE node
          [] input.opcode = "CAST_NUMBER_OR_NAN" ->
                IF IsAlways(analyzeInputBlock(children[1], state), NUMBER_OR_NAN)
                THEN children[1] ELSE node
          [] OTHER -> [node EXCEPT !.type = analyzeInputBlock(node, state)]

RECURSIVE optimizeStack(_, _)
RECURSIVE OptimizedTail(_, _)

\* one iteration of the for loop of optimizeStack
optimizeStackStep(stackBlock, state) ==
    LET entered == IF stackBlock.entryState # Undefined
                   THEN stackBlock.entryState ELSE state
        block == [stackBlock EXCEPT
                    !.inputs = [i \in DOMAIN stackBlock.inputs |->
                                  optimizeInput(stackBlock.inputs[i], entered)],
                    !.stacks = [j \in DOMAIN stackBlock.stacks |->
                                  optimizeStack(stackBlock.stacks[j], entered)]]
    IN  [block |-> block,
         state |-> IF stackBlock.exitState # Undefined
                   THEN stackBlock.exitState ELSE entered]

\* optimizeStack: the iterations after the first, which returned h
OptimizedTail(stack, h) == <<h.block>> \o optimizeStack(Tail(stack), h.state)

optimizeStack(stack, state) ==
    IF stack = <<>> THEN <<>>
    ELSE OptimizedTail(stack, optimizeStackStep(Head(stack), state))

(***************************************************************************)
(* Construction of intermediate representations.                           *)
(***************************************************************************)
getNumberInputType(number) ==
    CASE number.k = "pinf" -> NUMBER_POS_INF
      [] number.k = "ninf" -> NUMBER_NEG_INF
      [] number.k = "fin" /\ number.h < 0 -> NUMBER_NEG
      [] number.k = "fin" /\ number.h > 0 -> NUMBER_POS
      [] number.k = "nan" -> NUMBER_NAN
      [] OTHER -> NUMBER_ZERO

\* the type of the InputType that a cast opcode casts to
NUMBER_INDEX == NUMBER_POS_INT \cup NUMBER_ZERO \cup NUMBER_NEG_INT
CastOpcodes == {"CAST_BOOLEAN", "CAST_NUMBER", "CAST_NUMBER_OR_NAN",
                "CAST_NUMBER_INDEX", "CAST_STRING"}
CastTarget(castOpcode) ==
    CASE castOpcode = "CAST_BOOLEAN" -> BOOLEAN_TYPE
      [] castOpcode = "CAST_NUMBER" -> NUMBER
      [] castOpcode = "CAST_NUMBER_OR_NAN" -> NUMBER_OR_NAN
      [] castOpcode = "CAST_NUMBER_INDEX" -> NUMBER_INDEX
      [] castOpcode = "CAST_STRING" -> STRING_TYPE

One == Fin(2)
Typed(value, type) == IntermediateInput("CONSTANT", type, "", value, <<>>)
Constant(value) ==
    Typed(value, IF value.k = "str" THEN STRING_TYPE ELSE getNumberInputType(value))
VarGet(variable) == IntermediateInput("VAR_GET", ANY, variable, NoValue, <<>>)
Cast(castOpcode, target) ==
    IntermediateInput(castOpcode, CastTarget(castOpcode), "", NoValue, <<target>>)
Binary(opcode, left, right) ==
    IntermediateInput(opcode, NUMBER_OR_NAN, "", NoValue, <<left, right>>)

SetVar(variable, value) ==
    IntermediateStackBlock("VAR_SET", variable, <<value>>, <<>>, FALSE)
\* set v to "hello"
SetStr(variable) == SetVar(variable, Constant(Str("hello")))
\* set v to 1
SetNum(variable) == SetVar(variable, Constant(One))
\* set v to (w + 1)
Incr(variable, w) ==
    SetVar(variable, Binary("OP_ADD", Cast("CAST_NUMBER", VarGet(w)), Constant(One)))
\* set v to w, as a number
SetCast(variable, w) == SetVar(variable, Cast("CAST_NUMBER", VarGet(w)))
\* go to x: (x) y: (y)
GoTo ==
    IntermediateStackBlock("MOTION_XY_SET", "",
        <<Cast("CAST_NUMBER", VarGet("x")), Cast("CAST_NUMBER", VarGet("y"))>>,
        <<>>, FALSE)
\* wait (1) seconds
Wait == IntermediateStackBlock("CONTROL_WAIT", "", <<Constant(One)>>, <<>>, TRUE)
Call(yields) == IntermediateStackBlock("PROCEDURE_CALL", "", <<>>, <<>>, yields)
\* a CONTROL_FOR writes its counter to the variable y
Loop(opcode, body, yields) ==
    IntermediateStackBlock(opcode, IF opcode = "CONTROL_FOR" THEN "y" ELSE "",
        <<Cast(IF opcode = "CONTROL_WHILE" THEN "CAST_BOOLEAN" ELSE "CAST_NUMBER",
               VarGet("y"))>>,
        <<body>>, yields)
IfElse(whenTrue, whenFalse) ==
    IntermediateStackBlock("CONTROL_IF_ELSE", "",
        <<Cast("CAST_BOOLEAN", VarGet("x"))>>, <<whenTrue, whenFalse>>, FALSE)

\* a block that analyzeStackBlock has no case for and that calls into code
\* outside the script
OpaqueOpcodes == {"COMPATIBILITY_LAYER", "ADDON_CALL", "EVENT_BROADCAST_AND_WAIT"}
Opaque(opcode, yields) == IntermediateStackBlock(opcode, "", <<>>, <<>>, yields)

SimpleBlocks ==
    {SetNum("x"), SetNum("y"), SetStr("y"), Incr("y", "y"), SetCast("x", "y"),
     GoTo, Wait, Call(TRUE), Call(FALSE)}
Bodies ==
    {<<>>, <<SetCast("x", "y"), Call(FALSE)>>} \cup {<<b>> : b \in SimpleBlocks}
BranchBodies == {<<>>, <<SetNum("x")>>, <<SetStr("y")>>, <<Incr("y", "y")>>}
Blocks ==
    SimpleBlocks
    \cup {Loop(o, b, y) : o \in LoopOpcodes, b \in Bodies, y \in BOOLEAN}
    \cup {IfElse(t, f) : t \in BranchBodies, f \in BranchBodies}
    \cup {Opaque(o, y) : o \in OpaqueOpcodes, y \in BOOLEAN}
LeadingBlocks == {SetNum("x"), SetStr("y"), SetCast("x", "y"), Call(TRUE)}
TrailingStacks == {<<>>, <<GoTo>>, <<SetNum("y")>>}
StacksUpTo(blocks, n) == UNION {[1..k -> blocks] : k \in 0..n}
\* the scripts the entry is drawn from
Scripts ==
    {l \o <<b>> \o t : l \in StacksUpTo(LeadingBlocks, MaxBlocks - 1),
                       b \in Blocks, t \in TrailingStacks}
\* the stacks of entry.dependedProcedures
ProcedureLists == {<<>>, << <<SetStr("y")>> >>}

(***************************************************************************)
(* Literals and their JavaScript coercions.  A literal is a number, a      *)
(* string or a boolean; strings come from the set Strings.                 *)
(***************************************************************************)
Bool(b) == [k |-> "bool", h |-> IF b THEN 1 ELSE 0, s |-> ""]
IsNumber(v) == v.k \in {"fin", "pz", "nz", "pinf", "ninf", "nan"}

\* Number.prototype.toString of a magnitude of m halves
Magnitude(m) ==
    CASE m = 1 -> "0.5" [] m = 2 -> "1" [] m = 3 -> "1.5" [] m = 4 -> "2"
      [] m = 5 -> "2.5" [] m = 6 -> "3" [] m = 7 -> "3.5" [] OTHER -> "4"
Negative(m) ==
    CASE m = 1 -> "-0.5" [] m = 2 -> "-1" [] m = 3 -> "-1.5" [] m = 4 -> "-2"
      [] m = 5 -> "-2.5" [] m = 6 -> "-3" [] m = 7 -> "-3.5" [] OTHER -> "-4"
\* value.toString() of a number: both zeros print as "0"
NumberToString(v) ==
    CASE v.k = "nan" -> "NaN"
      [] v.k = "pinf" -> "Infinity"
      [] v.k = "ninf" -> "-Infinity"
      [] v.k \in {"pz", "nz"} -> "0"
      [] v.h > 0 -> Magnitude(v.h)
      [] OTHER -> Negative(-v.h)

\* the string literals of the model: the strings no number prints as ...
OtherStrings == {"", "hello", "last", "true", "false", "1.0", "01", "-0", "0.0"}
\* ... and the strings the numbers print as
PrintedStrings == {NumberToString(v) : v \in NumberValues \cup {NaN}}
Strings == OtherStrings \cup PrintedStrings

\* +value of a string
StringToNumber(s) ==
    CASE s \in {"", "0.0"} -> PosZero
      [] s = "-0" -> NegZero
      [] s \in {"1.0", "01"} -> Fin(2)
      [] s \in {"hello", "last", "true", "false", "NaN"} -> NaN
      [] s = "0" -> PosZero
      [] OTHER -> CHOOSE v \in NumberValues : NumberToString(v) = s

\* +value
JsToNumber(v) ==
    CASE v.k = "str" -> StringToNumber(v.s)
      [] v.k = "bool" -> IF v.h = 1 THEN Fin(2) ELSE PosZero
      [] OTHER -> v
\* value + ''
JsToString(v) ==
    CASE v.k = "str" -> v
      [] v.k = "bool" -> Str(IF v.h = 1 THEN "true" ELSE "false")
      [] OTHER -> Str(NumberToString(v))
\* Cast.toBoolean(value)
JsToBoolean(v) ==
    CASE v.k = "str" -> Bool(v.s \notin {"", "0", "false"})
      [] v.k = "bool" -> v
      [] OTHER -> Bool(~(IsZero(v) \/ v.k = "nan"))
\* a JavaScript value is truthy
Truthy(v) ==
    CASE v.k = "str" -> v.s # ""
      [] v.k = "bool" -> v.h = 1
      [] OTHER -> ~(IsZero(v) \/ v.k = "nan")

(***************************************************************************)
(* IntermediateInput.isConstant and IntermediateInput.toType.  toType      *)
(* returns the input it yields, or reports that it threw.                  *)
(***************************************************************************)
NUMBER_INTERPRETABLE == NUMBER \cup STRING_NUM \cup BOOLEAN_TYPE
BOOLEAN_INTERPRETABLE == BOOLEAN_TYPE
\* every string, whether or not it parses as a number
STRING_ANY == STRING_TYPE \cup STRING_NUM

\* a === b
StrictEquals(a, b) ==
    IF IsNumber(a) /\ IsNumber(b)
    THEN a.k # "nan" /\ b.k # "nan" /\ (a = b \/ (IsZero(a) /\ IsZero(b)))
    ELSE a = b

\* this.inputs.value === value, or (+this.inputs.value) === value for a number
isConstant(input, value) ==
    /\ input.opcode = "CONSTANT"
    /\ \/ StrictEquals(input.value, value)
       \/ IsNumber(value) /\ StrictEquals(JsToNumber(input.value), value)

\* the switch on targetType; "none" is its default branch, which throws
CastOpcodeOf(targetType) ==
    CASE targetType = BOOLEAN_TYPE -> "CAST_BOOLEAN"
      [] targetType = NUMBER -> "CAST_NUMBER"
      [] targetType = NUMBER_OR_NAN -> "CAST_NUMBER_OR_NAN"
      [] targetType = STRING_TYPE -> "CAST_STRING"
      [] OTHER -> "none"

\* the cast of a constant at compile time
CastConstant(input, castOpcode) ==
    CASE castOpcode = "CAST_BOOLEAN" ->
            [input EXCEPT !.value = JsToBoolean(input.value), !.type = BOOLEAN_TYPE]
      [] castOpcode \in {"CAST_NUMBER", "CAST_NUMBER_OR_NAN"} ->
            [input EXCEPT
                !.value = IF Truthy(JsToNumber(input.value))
                          THEN JsToNumber(input.value)
                          ELSE IF JsToNumber(input.value) = NegZero
                               THEN NegZero ELSE PosZero,
                !.type = NUMBER]
      [] OTHER ->
            [input EXCEPT !.value = JsToString(input.value), !.type = STRING_TYPE]

toType(input, targetType) ==
    IF CastOpcodeOf(targetType) = "none"
    THEN [thrown |-> TRUE, input |-> input]
    ELSE IF IsAlways(input.type, targetType)
    THEN [thrown |-> FALSE, input |-> input]
    ELSE IF input.opcode = "CONSTANT"
    THEN [thrown |-> FALSE, input |-> CastConstant(input, CastOpcodeOf(targetType))]
    ELSE [thrown |-> FALSE,
          input |-> IntermediateInput(CastOpcodeOf(targetType), targetType, "",
                                      NoValue, <<input>>)]

(***************************************************************************)
(* JSGenerator.descendInput.  The compiled input is the sequence of the    *)
(* pieces of text the template strings are made of; the result also tells  *)
(* whether the call threw and whether it set descendedIntoModulo.  The     *)
(* pooled setup variable that referenceVariable returns is written as the  *)
(* expression it is bound to.                                              *)
(***************************************************************************)
Text(source) == [thrown |-> FALSE, source |-> source, modulo |-> FALSE]
Threw == [thrown |-> TRUE, source |-> <<>>, modulo |-> FALSE]
\* the concatenation of two compiled pieces
Join(a, b) ==
    IF a.thrown \/ b.thrown THEN Threw
    ELSE [thrown |-> FALSE, source |-> a.source \o b.source,
          modulo |-> a.modulo \/ b.modulo]
Join3(a, b, c) == Join(a, Join(b, c))
Join5(a, b, c, d, e) == Join(a, Join(b, Join3(c, d, e)))

referenceVariable(variable) == Text(<<"stage.variables[", variable, "]">>)

\* JSGenerator.descendInput CONSTANT
DescendConstant(block) ==
    IF IsAlways(block.type, NUMBER)
    THEN IF ~IsNumber(block.value) THEN Threw
         ELSE IF block.value = NegZero THEN Text(<<"-0">>)
         ELSE Text(<<NumberToString(block.value)>>)
    ELSE IF IsAlways(block.type, BOOLEAN_TYPE)
    THEN IF block.value.k # "bool" THEN Threw
         ELSE Text(<<JsToString(block.value).s>>)
    ELSE IF IsSometimes(block.type, STRING_ANY)
    THEN Text(<<"\"", JsToString(block.value).s, "\"">>)
    ELSE Threw

isSafeInputForEqualsOptimization(input) ==
    /\ input.opcode = "CONSTANT"
    /\ IsAlways(input.type, NUMBER) \/ IsAlways(input.type, STRING_NUM)
    /\ ~IsZero(JsToNumber(input.value))

RECURSIVE descendInput(_, _)
RECURSIVE DescendTyped(_, _)

\* this.descendInput(input.toType(type)), r being what toType returned
DescendTyped(r, supportsNullishCoalescing) ==
    IF r.thrown THEN Threw ELSE descendInput(r.input, supportsNullishCoalescing)

\* a binary operator written between its operands
Infix(open, left, operator, right, close, env) ==
    Join5(Text(<<open>>), descendInput(left, env), Text(<<operator>>),
          descendInput(right, env), Text(<<close>>))

\* the same with both operands cast by toType
InfixTyped(open, left, operator, right, close, type, env) ==
    Join5(Text(<<open>>), DescendTyped(toType(left, type), env), Text(<<operator>>),
          DescendTyped(toType(right, type), env), Text(<<close>>))

\* JSGenerator.descendInput OP_EQUALS
DescendEquals(left, right, env) ==
    IF /\ IsAlways(left.type, NUMBER_INTERPRETABLE)
       /\ IsAlways(right.type, NUMBER_INTERPRETABLE)
    THEN InfixTyped("(", left, " === ", right, ")", NUMBER, env)
    ELSE IF \/ isSafeInputForEqualsOptimization(left)
            \/ isSafeInputForEqualsOptimization(right)
    THEN InfixTyped("(", left, " === ", right, ")", NUMBER, env)
    ELSE IF \/ ~IsSometimes(left.type, NUMBER_INTERPRETABLE)
            \/ ~IsSometimes(right.type, NUMBER_INTERPRETABLE)
    THEN InfixTyped("(", left, ".toLowerCase() === ", right, ".toLowerCase())",
                    STRING_TYPE, env)
    ELSE Infix("compareEqual(", left, ", ", right, ")", env)

\* JSGenerator.descendInput LIST_GET
DescendListGet(list, index, env) ==
    IF env /\ IsAlways(index.type, NUMBER_INTERPRETABLE \cup NUMBER_NAN)
    THEN Join5(Text(<<"(">>), referenceVariable(list), Text(<<".value[">>),
               DescendTyped(toType(index, NUMBER_INDEX), env),
               Text(<<" - 1] ?? \"\")">>))
    ELSE IF env /\ isConstant(index, Str("last"))
    THEN Join5(Text(<<"(">>), referenceVariable(list), Text(<<".value[">>),
               referenceVariable(list), Text(<<".value.length - 1] ?? \"\")">>))
    ELSE Join5(Text(<<"listGet(">>), referenceVariable(list), Text(<<".value, ">>),
               descendInput(index, env), Text(<<")">>))

\* JSGenerator.descendInput CAST_NUMBER
DescendCastNumber(target, env) ==
    IF IsAlways(target.type, BOOLEAN_INTERPRETABLE)
    THEN Join3(Text(<<"(+">>), DescendTyped(toType(target, BOOLEAN_TYPE), env),
               Text(<<")">>))
    ELSE IF IsAlways(target.type, NUMBER_OR_NAN)
    THEN Join3(Text(<<"(">>), descendInput(target, env), Text(<<" || 0)">>))
    ELSE Join3(Text(<<"(+">>), descendInput(target, env), Text(<<" || 0)">>))

\* JSGenerator.descendInput OP_MOD: sets descendedIntoModulo
DescendMod(left, right, env) ==
    [Infix("mod(", left, ", ", right, ")", env) EXCEPT !.modulo = TRUE]

descendInput(block, supportsNullishCoalescing) ==
    CASE block.opcode = "CAST_BOOLEAN" ->
            Join3(Text(<<"toBoolean(">>),
                  descendInput(block.inputs[1], supportsNullishCoalescing),
                  Text(<<")">>))
      [] block.opcode = "CAST_NUMBER" ->
            DescendCastNumber(block.inputs[1], supportsNullishCoalescing)
      [] block.opcode = "CAST_NUMBER_OR_NAN" ->
            Join3(Text(<<"(+">>),
                  descendInput(block.inputs[1], supportsNullishCoalescing),
                  Text(<<")">>))
      [] block.opcode = "CAST_NUMBER_INDEX" ->
            Join3(Text(<<"(">>),
                  DescendTyped(toType(block.inputs[1], NUMBER_OR_NAN),
                               supportsNullishCoalescing),
                  Text(<<" | 0)">>))
      [] block.opcode = "CAST_STRING" ->
            Join3(Text(<<"(\"\" + ">>),
                  descendInput(block.inputs[1], supportsNullishCoalescing),
                  Text(<<")">>))
      [] block.opcode = "CONSTANT" -> DescendConstant(block)
      [] block.opcode = "LIST_GET" ->
            DescendListGet(block.variable, block.inputs[1], supportsNullishCoalescing)
      [] block.opcode = "OP_ADD" ->
            Infix("(", block.inputs[1], " + ", block.inputs[2], ")",
                  supportsNullishCoalescing)
      [] block.opcode = "OP_DIVIDE" ->
            Infix("(", block.inputs[1], " / ", block.inputs[2], ")",
                  supportsNullishCoalescing)
      [] block.opcode = "OP_EQUALS" ->
            DescendEquals(block.inputs[1], block.inputs[2], supportsNullishCoalescing)
      [] block.opcode = "OP_MOD" ->
            DescendMod(block.inputs[1], block.inputs[2], supportsNullishCoalescing)
      [] block.opcode = "OP_MULTIPLY" ->
            Infix("(", block.inputs[1], " * ", block.inputs[2], ")",
                  supportsNullishCoalescing)
      [] block.opcode = "OP_SUBTRACT" ->
            Infix("(", block.inputs[1], " - ", block.inputs[2], ")",
                  supportsNullishCoalescing)
      [] block.opcode = "VAR_GET" ->
            Join(referenceVariable(block.variable), Text(<<".value">>))
      [] OTHER -> Threw

(***************************************************************************)
(* What descendInput leaves in the IR.  IntermediateInput.toType casts a   *)
(* CONSTANT where it stands, assigning this.inputs.value and this.type, so *)
(* the node the IR holds is the cast one after descendInput has returned;  *)
(* a cast node that toType creates around another input is not attached to *)
(* the IR.  Descended is the input as the IR holds it afterwards.          *)
(***************************************************************************)
RECURSIVE Descended(_, _)

\* the operand after this.descendInput(operand.toType(type)), r being what
\* toType returned
DescendedTyped(operand, r, env) ==
    IF r.thrown THEN operand
    ELSE IF operand.opcode = "CONSTANT" THEN r.input
    ELSE IF r.input = operand THEN Descended(operand, env)
    ELSE Descended(r.input, env).inputs[1]

\* the operands of a template string are compiled from left to right: the
\* right one is not reached when the left one threw
DescendedPair(block, left, leftThrew, right) ==
    [block EXCEPT !.inputs = <<left, IF leftThrew THEN block.inputs[2] ELSE right>>]

\* both operands cast by toType
DescendedTypedPair(block, type, env) ==
    DescendedPair(block,
        DescendedTyped(block.inputs[1], toType(block.inputs[1], type), env),
        DescendTyped(toType(block.inputs[1], type), env).thrown,
        DescendedTyped(block.inputs[2], toType(block.inputs[2], type), env))

\* both operands as they are
DescendedPlainPair(block, env) ==
    DescendedPair(block, Descended(block.inputs[1], env),
                  descendInput(block.inputs[1], env).thrown,
                  Descended(block.inputs[2], env))

\* the only input cast by toType
DescendedTypedTarget(block, type, env) ==
    [block EXCEPT !.inputs =
        <<DescendedTyped(block.inputs[1], toType(block.inputs[1], type), env)>>]

\* the only input as it is
DescendedTarget(block, env) ==
    [block EXCEPT !.inputs = <<Descended(block.inputs[1], env)>>]

\* OP_EQUALS, by the branches of DescendEquals
DescendedEquals(block, left, right, env) ==
    IF /\ IsAlways(left.type, NUMBER_INTERPRETABLE)
       /\ IsAlways(right.type, NUMBER_INTERPRETABLE)
    THEN DescendedTypedPair(block, NUMBER, env)
    ELSE IF \/ isSafeInputForEqualsOptimization(left)
            \/ isSafeInputForEqualsOptimization(right)
    THEN DescendedTypedPair(block, NUMBER, env)
    ELSE IF \/ ~IsSometimes(left.type, NUMBER_INTERPRETABLE)
            \/ ~IsSometimes(right.type, NUMBER_INTERPRETABLE)
    THEN DescendedTypedPair(block, STRING_TYPE, env)
    ELSE DescendedPlainPair(block, env)

\* LIST_GET, by the branches of DescendListGet
DescendedListGet(block, index, env) ==
    IF env /\ IsAlways(index.type, NUMBER_INTERPRETABLE \cup NUMBER_NAN)
    THEN DescendedTypedTarget(block, NUMBER_INDEX, env)
    ELSE IF env /\ isConstant(index, Str("last")) THEN block
    ELSE DescendedTarget(block, env)

Descended(block, env) ==
    CASE block.opcode = "CAST_NUMBER" ->
            IF IsAlways(block.inputs[1].type, BOOLEAN_INTERPRETABLE)
            THEN DescendedTypedTarget(block, BOOLEAN_TYPE, env)
            ELSE DescendedTarget(block, env)
      [] block.opcode = "CAST_NUMBER_INDEX" ->
            DescendedTypedTarget(block, NUMBER_OR_NAN, env)
      [] block.opcode \in {"CAST_BOOLEAN", "CAST_NUMBER_OR_NAN", "CAST_STRING"} ->
            DescendedTarget(block, env)
      [] block.opcode = "LIST_GET" -> DescendedListGet(block, block.inputs[1], env)
      [] block.opcode = "OP_EQUALS" ->
            DescendedEquals(block, block.inputs[1], block.inputs[2], env)
      [] block.opcode \in {"OP_ADD", "OP_DIVIDE", "OP_MOD", "OP_MULTIPLY",
                           "OP_SUBTRACT"} ->
            DescendedPlainPair(block, env)
      [] OTHER -> block

(***************************************************************************)
(* JSGenerator.descendStackedBlock and descendStack.  A generator g holds  *)
(* this.source as a sequence of pieces of text, this.descendedIntoModulo,  *)
(* and whether an Error was thrown, after which nothing more is emitted.   *)
(* frames is this.frames, script is this.script and procedures is          *)
(* this.ir.procedures, of which only the fields the generator reads are    *)
(* kept.  Pooled local variables are all written a.                        *)
(***************************************************************************)
NewGenerator == [source |-> <<>>, thrown |-> FALSE, modulo |-> FALSE]
Frame(isLoop, isLastBlock) == [isLoop |-> isLoop, isLastBlock |-> isLastBlock]
BoolText(b) == IF b THEN "true" ELSE "false"

\* this.source += tokens
Emit(g, tokens) == IF g.thrown THEN g ELSE [g EXCEPT !.source = @ \o tokens]
\* throw new Error(...)
Throw(g) == [g EXCEPT !.thrown = TRUE]
\* this.source += `${this.descendInput(input)}`, r being the compiled input
EmitInput(g, r) ==
    IF g.thrown THEN g
    ELSE IF r.thrown THEN Throw(g)
    ELSE [g EXCEPT !.source = @ \o r.source, !.modulo = @ \/ r.modulo]

isLastBlockInLoop(frames) ==
    \E i \in 1..Len(frames) :
        /\ frames[i].isLoop
        /\ \A j \in i..Len(frames) : frames[j].isLastBlock

yielded(g, script) ==
    IF g.thrown \/ script.yields THEN g ELSE Throw(g)

yieldNotWarp(g, script) ==
    IF ~script.isWarp THEN yielded(Emit(g, <<"yield;\n">>), script) ELSE g

yieldStuckOrNotWarp(g, script) ==
    yielded(Emit(g, IF script.isWarp THEN <<"if (isStuck()) yield;\n">>
                    ELSE <<"yield;\n">>),
            script)

\* yieldLoop without the test of warpTimer: the stuck yield in every warp loop
yieldLoopIgnoringTimer(g, script) == yieldStuckOrNotWarp(g, script)

yieldLoop(g, script) ==
    IF script.warpTimer THEN yieldStuckOrNotWarp(g, script)
    ELSE yieldNotWarp(g, script)

retire(g, script) ==
    Emit(g, IF script.isProcedure THEN <<"retire(); yield;\n">>
            ELSE <<"retire(); return;\n">>)

\* the compatibility layer call of a block without inputs or fields
generateCompatibilityLayerCall(block, setFlags, script) ==
    Text(<<"yield* executeInCompatibilityLayer({", "}, ", "opcodeFunction", ", ",
           BoolText(script.isWarp), ", ", BoolText(setFlags), ", null)">>)

\* JSGenerator.descendStackedBlock ADDON_CALL
DescendAddonCall(g, script) ==
    Emit(g, <<"yield* executeInCompatibilityLayer(", "{}", ", ", "blockFunction",
              ", ", BoolText(script.isWarp), ", false, ", "blockId", ");\n">>)

\* JSGenerator.descendStackedBlock COMPATIBILITY_LAYER
DescendCompatibilityLayer(g, block, isLastInLoop, script) ==
    Emit(Emit(EmitInput(g, generateCompatibilityLayerCall(block, isLastInLoop, script)),
              <<";\n">>),
         IF isLastInLoop
         THEN <<"if (hasResumedFromPromise) {hasResumedFromPromise = false;continue;}\n">>
         ELSE <<>>)

\* JSGenerator.descendStackedBlock CONTROL_CLONE_DELETE
DescendCloneDelete(g, script) ==
    Emit(retire(Emit(g, <<"if (!target.isOriginal) {\n",
                          "  runtime.disposeTarget(target);\n",
                          "  runtime.stopForTarget(target);\n">>),
                script),
         <<"}\n">>)

\* JSGenerator.descendStackedBlock CONTROL_WAIT
DescendWait(g, seconds, script) ==
    LET timed == Emit(g, <<"thread.timer = timer();\n",
                           "var a = Math.max(0, 1000 * ">>)
        computed == Emit(EmitInput(timed, seconds),
                         <<");\n", "runtime.requestRedraw();\n">>)
        yieldedOnce == yieldNotWarp(computed, script)
        looping == Emit(yieldedOnce, <<"while (thread.timer.timeElapsed() < a) {\n">>)
    IN  Emit(yieldStuckOrNotWarp(looping, script),
             <<"}\n", "thread.timer = null;\n">>)

\* JSGenerator.descendStackedBlock CONTROL_WAIT_UNTIL
DescendWaitUntil(g, condition, script) ==
    Emit(yieldStuckOrNotWarp(
             Emit(EmitInput(Emit(g, <<"while (!">>), condition), <<") {\n">>),
             script),
         <<"}\n">>)

\* JSGenerator.descendStackedBlock EVENT_BROADCAST_AND_WAIT
DescendBroadcastAndWait(g, broadcast, script) ==
    yielded(Emit(EmitInput(Emit(g, <<"yield* waitThreads(startHats(",
                                     "\"event_whenbroadcastreceived\"",
                                     ", { BROADCAST_OPTION: ">>),
                           broadcast),
                 <<" }));\n">>),
            script)

\* MOTION_X_SET, MOTION_Y_SET and MOTION_XY_SET without the reset of
\* descendedIntoModulo
DescendMotionWithoutReset(g, x, y) ==
    LET set == Emit(EmitInput(Emit(EmitInput(Emit(g, <<"target.setXY(">>), x),
                                   <<", ">>),
                              y),
                    <<");\n">>)
    IN  IF set.modulo
        THEN Emit(set, <<"if (target.interpolationData) target.interpolationData = null;\n">>)
        ELSE set

\* JSGenerator.descendStackedBlock MOTION_X_SET, MOTION_Y_SET, MOTION_XY_SET,
\* x and y being the compiled inputs, or target.x and target.y
DescendMotion(g, x, y) ==
    LET set == Emit(EmitInput(Emit(EmitInput(Emit([g EXCEPT !.modulo = FALSE],
                                                  <<"target.setXY(">>),
                                             x),
                                   <<", ">>),
                              y),
                    <<");\n">>)
    IN  IF set.modulo
        THEN Emit(set, <<"if (target.interpolationData) target.interpolationData = null;\n">>)
        ELSE set

\* PROCEDURE_CALL without the yield* in front of a call of a yielding procedure
DescendProcedureCallUnprefixed(g, block, script, procedureData) ==
    LET recursed == IF ~script.isWarp /\ block.variable = script.procedureCode
                    THEN yieldNotWarp(g, script) ELSE g
    IN  IF procedureData.stackIsNull THEN g
        ELSE Emit(recursed, <<"thread.procedures[", block.variable, "](", ");\n">>)

\* JSGenerator.descendStackedBlock PROCEDURE_CALL
DescendProcedureCall(g, block, script, procedureData) ==
    LET recursed == IF ~script.isWarp /\ block.variable = script.procedureCode
                    THEN yieldNotWarp(g, script) ELSE g
        prefixed == IF procedureData.yields
                    THEN yielded(Emit(recursed, <<"yield* ">>), script)
                    ELSE recursed
    IN  IF procedureData.stackIsNull THEN g
        ELSE Emit(prefixed, <<"thread.procedures[", block.variable, "](", ");\n">>)

\* JSGenerator.descendStackedBlock VAR_SET
DescendVarSet(g, block) ==
    Emit(EmitInput(Emit(EmitInput(g, referenceVariable(block.variable)),
                        <<".value = ">>),
                   descendInput(block.inputs[1], TRUE)),
         <<";\n">>)

RECURSIVE descendStackedBlock(_, _, _, _)
RECURSIVE DescendBlocks(_, _, _, _, _, _)

\* JSGenerator.descendStack: the frame is pushed, the blocks compiled in order
descendStack(g, stack, isLoop, frames, ir) ==
    DescendBlocks(g, stack, 1, isLoop, frames, ir)

\* the for loop of descendStack from its i-th iteration
DescendBlocks(g, stack, i, isLoop, frames, ir) ==
    IF g.thrown \/ i > Len(stack) THEN g
    ELSE DescendBlocks(
             descendStackedBlock(g, stack[i],
                 Append(frames, Frame(isLoop, i = Len(stack))), ir),
             stack, i + 1, isLoop, frames, ir)

\* CONTROL_FOR and CONTROL_REPEAT: the body, then yieldLoop
DescendLoop(g, block, head, frames, ir) ==
    Emit(yieldLoop(descendStack(EmitInput(g, head), block.stacks[1], TRUE, frames, ir),
                   ir.script),
         <<"}\n">>)

\* CONTROL_WHILE: the body, then the yield that node.warpTimer selects
DescendWhile(g, block, frames, ir) ==
    LET body == descendStack(
                    Emit(EmitInput(Emit(g, <<"while (">>),
                                   descendInput(block.inputs[1], TRUE)),
                         <<") {\n">>),
                    block.stacks[1], TRUE, frames, ir)
    IN  Emit(IF block.variable = "warpTimer"
             THEN yieldStuckOrNotWarp(body, ir.script)
             ELSE yieldLoop(body, ir.script),
             <<"}\n">>)

\* CONTROL_IF_ELSE: the else branch only if it is not empty
DescendIfElse(g, block, frames, ir) ==
    LET whenTrue == descendStack(
                        Emit(EmitInput(Emit(g, <<"if (">>),
                                       descendInput(block.inputs[1], TRUE)),
                             <<") {\n">>),
                        block.stacks[1], FALSE, frames, ir)
    IN  Emit(IF Len(block.stacks[2]) > 0
             THEN descendStack(Emit(whenTrue, <<"} else {\n">>),
                               block.stacks[2], FALSE, frames, ir)
             ELSE whenTrue,
             <<"}\n">>)

descendStackedBlock(g, block, frames, ir) ==
    CASE g.thrown -> g
      [] block.opcode = "ADDON_CALL" -> DescendAddonCall(g, ir.script)
      [] block.opcode = "COMPATIBILITY_LAYER" ->
            DescendCompatibilityLayer(g, block, isLastBlockInLoop(frames), ir.script)
      [] block.opcode = "CONTROL_CLONE_DELETE" -> DescendCloneDelete(g, ir.script)
      [] block.opcode = "CONTROL_FOR" ->
            DescendLoop(g, block,
                Join5(Text(<<"var a = 0; ", "while (a < ">>),
                      descendInput(block.inputs[1], TRUE),
                      Text(<<") { ", "a++; ">>),
                      referenceVariable(block.variable),
                      Text(<<".value = a;\n">>)),
                frames, ir)
      [] block.opcode = "CONTROL_IF_ELSE" -> DescendIfElse(g, block, frames, ir)
      [] block.opcode = "CONTROL_REPEAT" ->
            DescendLoop(g, block,
                Join3(Text(<<"for (var a = ">>),
                      descendInput(block.inputs[1], TRUE),
                      Text(<<"; a >= 0.5; a--) {\n">>)),
                frames, ir)
      [] block.opcode = "CONTROL_STOP_ALL" ->
            retire(Emit(g, <<"runtime.stopAll();\n">>), ir.script)
      [] block.opcode = "CONTROL_STOP_SCRIPT" ->
            IF ir.script.isProcedure THEN Emit(g, <<"return;\n">>)
            ELSE retire(g, ir.script)
      [] block.opcode = "CONTROL_WAIT" ->
            DescendWait(g, descendInput(block.inputs[1], TRUE), ir.script)
      [] block.opcode = "CONTROL_WAIT_UNTIL" ->
            DescendWaitUntil(g, descendInput(block.inputs[1], TRUE), ir.script)
      [] block.opcode = "CONTROL_WHILE" -> DescendWhile(g, block, frames, ir)
      [] block.opcode = "EVENT_BROADCAST_AND_WAIT" ->
            DescendBroadcastAndWait(g, descendInput(block.inputs[1], TRUE), ir.script)
      [] block.opcode = "MOTION_X_SET" ->
            DescendMotion(g, descendInput(block.inputs[1], TRUE), Text(<<"target.y">>))
      [] block.opcode = "MOTION_Y_SET" ->
            DescendMotion(g, Text(<<"target.x">>), descendInput(block.inputs[1], TRUE))
      [] block.opcode = "MOTION_XY_SET" ->
            DescendMotion(g, descendInput(block.inputs[1], TRUE),
                          descendInput(block.inputs[2], TRUE))
      [] block.opcode = "PROCEDURE_CALL" ->
            \* this.ir.procedures[procedureVariant] of a missing variant is
            \* undefined, and reading its stack throws
            IF block.variable \in DOMAIN ir.procedures
            THEN DescendProcedureCall(g, block, ir.script, ir.procedures[block.variable])
            ELSE Throw(g)
      [] block.opcode = "VAR_SET" -> DescendVarSet(g, block)
      [] OTHER -> g

\* JSGenerator.createScriptFactory for a script without arguments
createScriptFactory(source, script) ==
    <<"(function factory(thread) { ", "const target = thread.target; ",
      "const runtime = target.runtime; ",
      "const stage = runtime.getTargetForStage();\n", "return ",
      IF script.yields THEN "function* " ELSE "function ",
      "name", " (", ") {\n">>
    \o source
    \o (IF ~script.isProcedure THEN <<"retire();\n">> ELSE <<>>)
    \o <<"}; })">>

(***************************************************************************)
(* IROptimizer.optimize() as a state machine.  procedures holds the stacks *)
(* of entry.dependedProcedures in order and entry the entry stack; script  *)
(* counts the script being processed (the procedures first, the entry      *)
(* last), phase and idx give the position inside analyzeStack or           *)
(* optimizeStack of that script's top-level stack.                         *)
(***************************************************************************)
VARIABLES
    procedures,  \* ir.procedures, in the order of entry.dependedProcedures
    entry,       \* ir.entry.stack
    state,       \* the TypeState of optimize()
    script,      \* index of the script being processed
    phase,       \* "analyze", "optimize" or "done"
    idx,         \* index of the next block of the top-level stack
    ostate,      \* the state variable of optimizeStack
    run,         \* 1 during the first optimize(), 2 during the second
    first,       \* the IR as the first optimize() left it
    loops,       \* bookkeeping of the loop analyses so far
    last,        \* the step taken last
    before,      \* the analyzer's state before each block of the script
    arith,       \* an arithmetic input under analysis
    casting,     \* a cast input under rewriting
    mono,        \* a stack block analyzed from two states
    lowered,     \* an input under JSGenerator.descendInput
    literal,     \* a constant under getNumberInputType and toType
    joined,      \* two TypeStates under TypeState.or
    gen          \* a JSGenerator compiling one script

vars == <<procedures, entry, state, script, phase, idx, ostate, run, first,
          loops, last, before, arith, casting, mono, lowered, literal, joined,
          gen>>
compilerVars == <<lowered, literal, joined, gen>>
optimizerVars == <<procedures, entry, state, script, phase, idx, ostate, run,
                   first, loops, last, before>>

NoStep == [op |-> "none", block |-> Call(FALSE), pre |-> NewTypeState,
           modified |-> FALSE]
Idle == [stage |-> "idle"]
CompilerIdle ==
    /\ lowered = Idle
    /\ literal = Idle
    /\ joined = Idle
    /\ gen = Idle

NumScripts == Len(procedures) + 1
CurrentStack == IF script <= Len(procedures) THEN procedures[script] ELSE entry
SetCurrentBlock(block) ==
    IF script <= Len(procedures)
    THEN /\ procedures' = [procedures EXCEPT ![script][idx] = block]
         /\ UNCHANGED entry
    ELSE /\ entry' = [entry EXCEPT ![idx] = block]
         /\ UNCHANGED procedures

Init ==
    /\ procedures \in ProcedureLists
    /\ entry \in Scripts
    /\ state = NewTypeState
    /\ script = 1
    /\ phase = "analyze"
    /\ idx = 1
    /\ ostate = NewTypeState
    /\ run = 1
    /\ first = [procedures |-> <<>>, entry |-> <<>>]
    /\ loops = NoLoops
    /\ last = NoStep
    /\ before = <<>>
    /\ arith = Idle
    /\ casting = Idle
    /\ mono = Idle
    /\ CompilerIdle

\* analyzeStack of the script: one iteration of its for loop
AnalyzeBlock ==
    /\ phase = "analyze"
    /\ idx <= Len(CurrentStack)
    /\ \E r \in {analyzeStackStep(CurrentStack[idx], state)} :
           /\ SetCurrentBlock(r.block)
           /\ state' = r.state
           /\ loops' = JoinLoops(loops, r.loops)
           /\ last' = [op |-> "analyze", block |-> CurrentStack[idx],
                       pre |-> state, modified |-> r.modified]
    /\ idx' = idx + 1
    /\ before' = Append(before, state)
    /\ UNCHANGED <<script, phase, ostate, run, first, arith, casting, mono, compilerVars>>

\* analyzeStack returns and optimizeStack is called with the same state
BeginOptimize ==
    /\ phase = "analyze"
    /\ idx > Len(CurrentStack)
    /\ phase' = "optimize"
    /\ idx' = 1
    /\ ostate' = state
    /\ last' = [NoStep EXCEPT !.op = "begin"]
    /\ UNCHANGED <<procedures, entry, state, script, run, first, loops,
                   before, arith, casting, mono, compilerVars>>

\* optimizeStack of the script: one iteration of its for loop
OptimizeBlock ==
    /\ phase = "optimize"
    /\ idx <= Len(CurrentStack)
    /\ \E h \in {optimizeStackStep(CurrentStack[idx], ostate)} :
           /\ SetCurrentBlock(h.block)
           /\ ostate' = h.state
           /\ last' = [op |-> "optimize", block |-> CurrentStack[idx],
                       pre |-> ostate, modified |-> FALSE]
    /\ idx' = idx + 1
    /\ UNCHANGED <<state, script, phase, run, first, loops, before,
                   arith, casting, mono, compilerVars>>

\* the next iteration of the loop over entry.dependedProcedures, or the entry
NextScript ==
    /\ phase = "optimize"
    /\ idx > Len(CurrentStack)
    /\ script < NumScripts
    /\ script' = script + 1
    /\ phase' = "analyze"
    /\ idx' = 1
    /\ last' = [NoStep EXCEPT !.op = "next"]
    /\ before' = <<>>
    /\ UNCHANGED <<procedures, entry, state, ostate, run, first, loops,
                   arith, casting, mono, compilerVars>>

\* optimize() returns
Finish ==
    /\ phase = "optimize"
    /\ idx > Len(CurrentStack)
    /\ script = NumScripts
    /\ phase' = "done"
    /\ first' = IF run = 1 THEN [procedures |-> procedures, entry |-> entry]
                ELSE first
    /\ last' = [NoStep EXCEPT !.op = "finish"]
    /\ UNCHANGED <<procedures, entry, state, script, idx, ostate, run, loops,
                   before, arith, casting, mono, compilerVars>>

\* optimize() is called again on the same IR
OptimizeAgain ==
    /\ phase = "done"
    /\ run = 1
    /\ run' = 2
    /\ state' = NewTypeState
    /\ script' = 1
    /\ phase' = "analyze"
    /\ idx' = 1
    /\ last' = [NoStep EXCEPT !.op = "again"]
    /\ before' = <<>>
    /\ UNCHANGED <<procedures, entry, ostate, first, loops, arith, casting, mono, compilerVars>>

Next ==
    \/ AnalyzeBlock
    \/ BeginOptimize
    \/ OptimizeBlock
    \/ NextScript
    \/ Finish
    \/ OptimizeAgain

Spec == Init /\ [][Next]_vars

(***************************************************************************)
(* The arithmetic cases of analyzeInputBlock against the runtime: a binary *)
(* operator on two constants, each typed by the atom of its value, is      *)
(* analyzed, evaluated as the generated code evaluates it, and rewritten   *)
(* under a CAST_NUMBER.                                                    *)
(***************************************************************************)
ArithOpcodes == {"OP_ADD", "OP_SUBTRACT", "OP_MULTIPLY", "OP_DIVIDE"}
Evaluate(opcode, left, right) ==
    CASE opcode = "OP_ADD" -> JsAdd(left, right)
      [] opcode = "OP_SUBTRACT" -> JsSubtract(left, right)
      [] opcode = "OP_MULTIPLY" -> JsMultiply(left, right)
      [] opcode = "OP_DIVIDE" -> JsDivide(left, right)
ArithInput(a) ==
    Binary(a.opcode, Typed(a.left, {AtomOf(a.left)}), Typed(a.right, {AtomOf(a.right)}))

OptimizerIdle ==
    /\ procedures = <<>>
    /\ entry = <<>>
    /\ state = NewTypeState
    /\ script = 1
    /\ phase = "done"
    /\ idx = 1
    /\ ostate = NewTypeState
    /\ run = 2
    /\ first = [procedures |-> <<>>, entry |-> <<>>]
    /\ loops = NoLoops
    /\ last = NoStep
    /\ before = <<>>

InitArith ==
    /\ OptimizerIdle
    /\ arith \in {[stage |-> "built", opcode |-> o, left |-> l, right |-> r,
                   type |-> {}, value |-> NaN, rewritten |-> Constant(NaN)] :
                  o \in ArithOpcodes, l \in NumberValues, r \in NumberValues}
    /\ casting = Idle
    /\ mono = Idle
    /\ CompilerIdle

ArithAnalyze ==
    /\ arith.stage = "built"
    /\ arith' = [arith EXCEPT !.stage = "analyzed",
                    !.type = analyzeInputBlock(ArithInput(arith), NewTypeState)]
    /\ UNCHANGED <<optimizerVars, casting, mono, compilerVars>>

ArithEvaluate ==
    /\ arith.stage = "analyzed"
    /\ arith' = [arith EXCEPT !.stage = "evaluated",
                    !.value = Evaluate(arith.opcode, arith.left, arith.right)]
    /\ UNCHANGED <<optimizerVars, casting, mono, compilerVars>>

ArithOptimize ==
    /\ arith.stage = "evaluated"
    /\ arith' = [arith EXCEPT !.stage = "rewritten",
                    !.rewritten = optimizeInput(
                        Cast("CAST_NUMBER", ArithInput(arith)), NewTypeState)]
    /\ UNCHANGED <<optimizerVars, casting, mono, compilerVars>>

NextArith == ArithAnalyze \/ ArithEvaluate \/ ArithOptimize
SpecArith == InitArith /\ [][NextArith]_vars

(***************************************************************************)
(* optimizeInput on one cast input under one TypeState.                    *)
(***************************************************************************)
\* the types a variable is given in the states that inputs are analyzed from
VariableTypes ==
    {Absent, ANY, NUMBER_POS, NUMBER_ZERO, NUMBER, NUMBER_NAN, NUMBER_OR_NAN,
     STRING_TYPE, BOOLEAN_TYPE, STRING_TYPE \cup NUMBER_POS_INT, NUMBER_POS_INT}
TypeStates == [Vars -> VariableTypes]
CastInners ==
    {VarGet("x"), Constant(Str("hello")), Constant(One), Constant(PosZero),
     Typed(Str("true"), BOOLEAN_TYPE),
     Cast("CAST_NUMBER", VarGet("x")), Cast("CAST_NUMBER_OR_NAN", VarGet("y")),
     Cast("CAST_STRING", VarGet("x")),
     Binary("OP_ADD", Cast("CAST_NUMBER", VarGet("x")), Constant(One)),
     Binary("OP_DIVIDE", Constant(PosZero), Constant(PosZero)),
     Cast("CAST_NUMBER_OR_NAN",
          Binary("OP_MULTIPLY", Constant(PosZero), Constant(PosZero)))}

InitCast ==
    /\ OptimizerIdle
    /\ arith = Idle
    /\ casting \in {[stage |-> "built", opcode |-> c, inner |-> i, state |-> s,
                     input |-> Cast(c, i), result |-> i] :
                    c \in CastOpcodes, i \in CastInners, s \in TypeStates}
    /\ mono = Idle
    /\ CompilerIdle

CastOptimize ==
    /\ casting.stage = "built"
    /\ casting' = [casting EXCEPT !.stage = "rewritten",
                      !.result = optimizeInput(casting.input, casting.state)]
    /\ UNCHANGED <<optimizerVars, arith, mono, compilerVars>>

NextCast == CastOptimize
SpecCast == InitCast /\ [][NextCast]_vars

(***************************************************************************)
(* analyzeStackBlock on one block from two states, small below large.      *)
(***************************************************************************)
Below(small, large) ==
    \A v \in Vars : getVariableType(small, v) \subseteq getVariableType(large, v)
MonoBlocks ==
    SimpleBlocks
    \cup {Loop("CONTROL_REPEAT", b, FALSE) : b \in Bodies}
    \cup {IfElse(t, f) : t \in BranchBodies, f \in BranchBodies}

\* the types a variable has in the two states
MonoTypes ==
    {Absent, ANY, NUMBER_POS_INT, NUMBER_POS, STRING_TYPE,
     STRING_TYPE \cup NUMBER_POS_INT}
MonoStates == [Vars -> MonoTypes]

InitMono ==
    /\ OptimizerIdle
    /\ arith = Idle
    /\ casting = Idle
    /\ mono \in {m \in {[stage |-> "built", block |-> b, small |-> s, large |-> l,
                         fromSmall |-> s, fromLarge |-> l] :
                        b \in MonoBlocks, s \in MonoStates, l \in MonoStates} :
                 Below(m.small, m.large)}
    /\ CompilerIdle

MonoAnalyze ==
    /\ mono.stage = "built"
    /\ mono' = [mono EXCEPT !.stage = "analyzed",
                   !.fromSmall = analyzeStackBlock(mono.block, mono.small).state,
                   !.fromLarge = analyzeStackBlock(mono.block, mono.large).state]
    /\ UNCHANGED <<optimizerVars, arith, casting, compilerVars>>

NextMono == MonoAnalyze
SpecMono == InitMono /\ [][NextMono]_vars

(***************************************************************************)
(* getNumberInputType and toType on one constant.  The constant is built   *)
(* from a literal, a number typed by getNumberInputType, and then cast to  *)
(* one of the types toType accepts.                                        *)
(***************************************************************************)
Literals ==
    NumberValues \cup {NaN} \cup {Str(s) : s \in Strings} \cup {Bool(b) : b \in BOOLEAN}
\* a string parses as a number
ParsesAsNumber(s) == s # "" /\ StringToNumber(s) # NaN
\* the types a constant is built with
LiteralTypes(value) ==
    CASE IsNumber(value) -> {getNumberInputType(value)}
      [] value.k = "bool" -> {BOOLEAN_TYPE}
      [] OTHER -> {STRING_TYPE} \cup (IF ParsesAsNumber(value.s) THEN {STRING_NUM} ELSE {})
ToTypeTargets == {BOOLEAN_TYPE, NUMBER, NUMBER_OR_NAN, STRING_TYPE}

OthersIdle ==
    /\ OptimizerIdle
    /\ arith = Idle
    /\ casting = Idle
    /\ mono = Idle

InitLiteral ==
    /\ OthersIdle
    /\ lowered = Idle
    /\ joined = Idle
    /\ gen = Idle
    /\ literal \in {[stage |-> "literal", value |-> v, target |-> t,
                     input |-> Constant(v),
                     result |-> [thrown |-> FALSE, input |-> Constant(v)]] :
                    v \in Literals, t \in ToTypeTargets}

\* the constant is built
LiteralBuild ==
    /\ literal.stage = "literal"
    /\ \E type \in LiteralTypes(literal.value) :
           literal' = [literal EXCEPT !.stage = "built",
                          !.input = Typed(literal.value, type)]
    /\ UNCHANGED <<optimizerVars, arith, casting, mono, lowered, joined, gen>>

\* the constant is cast
LiteralToType ==
    /\ literal.stage = "built"
    /\ literal' = [literal EXCEPT !.stage = "cast",
                      !.result = toType(literal.input, literal.target)]
    /\ UNCHANGED <<optimizerVars, arith, casting, mono, lowered, joined, gen>>

NextLiteral == LiteralBuild \/ LiteralToType
SpecLiteral == InitLiteral /\ [][NextLiteral]_vars

(***************************************************************************)
(* TypeState.or on two states.                                             *)
(***************************************************************************)
\* the types a variable has in the two states
OrTypes == {Absent, ANY, NUMBER, NUMBER_POS_INT, NUMBER_ZERO, STRING_TYPE}
OrStates == [Vars -> OrTypes]

InitOr ==
    /\ OthersIdle
    /\ lowered = Idle
    /\ literal = Idle
    /\ gen = Idle
    /\ joined \in {[stage |-> "built", state |-> s, other |-> o,
                    result |-> [state |-> s, modified |-> FALSE]] :
                   s \in OrStates, o \in OrStates}

OrStatesJoin ==
    /\ joined.stage = "built"
    /\ joined' = [joined EXCEPT !.stage = "joined",
                     !.result = TypeStateOr(joined.state, joined.other)]
    /\ UNCHANGED <<optimizerVars, arith, casting, mono, lowered, literal, gen>>

NextOr == OrStatesJoin
SpecOr == InitOr /\ [][NextOr]_vars

(***************************************************************************)
(* JSGenerator.descendInput on one input: an OP_EQUALS of two operands or  *)
(* a LIST_GET, with or without environment.supportsNullishCoalescing.      *)
(***************************************************************************)
\* a variable read whose type the analyzer has narrowed
TypedVarGet(variable, type) ==
    IntermediateInput("VAR_GET", type, variable, NoValue, <<>>)
ListGet(list, index) == IntermediateInput("LIST_GET", ANY, list, NoValue, <<index>>)
Equals(left, right) ==
    IntermediateInput("OP_EQUALS", BOOLEAN_TYPE, "", NoValue, <<left, right>>)

Operands ==
    {Constant(One), Constant(PosZero), Constant(Fin(1)), Constant(NaN),
     Constant(Str("hello")), Constant(Str("")),
     Typed(Str("1"), STRING_NUM), Typed(Str("1.0"), STRING_NUM),
     Typed(Str("01"), STRING_NUM), Typed(Str("0"), STRING_NUM),
     Typed(Bool(TRUE), BOOLEAN_TYPE)}
    \cup {TypedVarGet("x", t) : t \in {ANY, STRING_TYPE, STRING_NUM, NUMBER,
                                       NUMBER_OR_NAN, BOOLEAN_TYPE}}
Indexes ==
    Operands \cup {Constant(Str("last")), Cast("CAST_NUMBER", VarGet("x")),
                   Binary("OP_ADD", Cast("CAST_NUMBER", VarGet("x")), Constant(One))}
LoweredInputs ==
    {Equals(l, r) : l \in Operands, r \in Operands}
    \cup {ListGet("list", i) : i \in Indexes}

InitLowered ==
    /\ OthersIdle
    /\ literal = Idle
    /\ joined = Idle
    /\ gen = Idle
    /\ lowered \in {[stage |-> "built", input |-> i, env |-> e, result |-> Threw,
                     ir |-> i, again |-> Threw] :
                    i \in LoweredInputs, e \in BOOLEAN}

\* descendInput of the input: ir is the input as the IR holds it afterwards
LowerInput ==
    /\ lowered.stage = "built"
    /\ lowered' = [lowered EXCEPT !.stage = "lowered",
                      !.result = descendInput(lowered.input, lowered.env),
                      !.ir = Descended(lowered.input, lowered.env)]
    /\ UNCHANGED <<optimizerVars, arith, casting, mono, literal, joined, gen>>

\* descendInput of the same input of the IR once more
LowerAgain ==
    /\ lowered.stage = "lowered"
    /\ lowered' = [lowered EXCEPT !.stage = "relowered",
                      !.again = descendInput(lowered.ir, lowered.env),
                      !.ir = Descended(lowered.ir, lowered.env)]
    /\ UNCHANGED <<optimizerVars, arith, casting, mono, literal, joined, gen>>

NextLowered == LowerInput \/ LowerAgain
SpecLowered == InitLowered /\ [][NextLowered]_vars

(***************************************************************************)
(* JSGenerator.compile() of one script: descendStack of script.stack under *)
(* a Frame(false), one block per step, then createScriptFactory.  A null   *)
(* stack is the empty sequence.                                            *)
(***************************************************************************)
Mod(left, right) ==
    IntermediateInput("OP_MOD", NUMBER_OR_NAN, "", NoValue, <<left, right>>)
\* (x) mod (1)
ModOfX == Mod(Cast("CAST_NUMBER", VarGet("x")), Constant(One))
Command(opcode, inputs) == IntermediateStackBlock(opcode, "", inputs, <<>>, FALSE)
Motion(opcode, inputs) == Command(opcode, inputs)
CallOf(variant) == IntermediateStackBlock("PROCEDURE_CALL", variant, <<>>, <<>>, FALSE)
While(body, warpTimer) ==
    [Loop("CONTROL_WHILE", body, FALSE) EXCEPT
        !.variable = IF warpTimer THEN "warpTimer" ELSE ""]

MotionBlocks ==
    {Motion("MOTION_X_SET", <<i>>) : i \in {ModOfX, Constant(One)}}
    \cup {Motion("MOTION_Y_SET", <<i>>) : i \in {ModOfX, Constant(One)}}
    \cup {Motion("MOTION_XY_SET", <<x, y>>) :
            x \in {ModOfX, Constant(One)}, y \in {ModOfX, Constant(One)}}
YieldingCommands ==
    {Command("ADDON_CALL", <<>>), Command("COMPATIBILITY_LAYER", <<>>),
     Command("EVENT_BROADCAST_AND_WAIT", <<Constant(Str("hello"))>>),
     Command("CONTROL_STOP_ALL", <<>>), Command("CONTROL_CLONE_DELETE", <<>>),
     Command("CONTROL_WAIT", <<Constant(One)>>),
     Command("CONTROL_WAIT_UNTIL", <<Cast("CAST_BOOLEAN", VarGet("x"))>>),
     CallOf("p"), CallOf("q"), CallOf("r")}
PlainCommands ==
    {Command("CONTROL_STOP_SCRIPT", <<>>), SetVar("y", ModOfX), SetNum("y")}
\* the bodies of loops and the branches of if-else
GeneratedBodies ==
    {<<>>, <<SetNum("y")>>, <<Command("COMPATIBILITY_LAYER", <<>>)>>,
     <<Command("COMPATIBILITY_LAYER", <<>>), SetNum("y")>>,
     <<Motion("MOTION_X_SET", <<Constant(One)>>)>>}
CompoundBlocks ==
    {Loop(o, b, FALSE) : o \in {"CONTROL_REPEAT", "CONTROL_FOR"}, b \in GeneratedBodies}
    \cup {While(b, w) : b \in GeneratedBodies, w \in BOOLEAN}
    \cup {IfElse(b, <<>>) : b \in GeneratedBodies}
    \cup {IfElse(<<>>, <<Command("COMPATIBILITY_LAYER", <<>>)>>)}
GeneratedBlocks == MotionBlocks \cup YieldingCommands \cup PlainCommands \cup CompoundBlocks
\* the blocks in front of the last block of a script
EarlierBlocks == {SetVar("y", ModOfX), SetNum("y"), Motion("MOTION_X_SET", <<ModOfX>>)}
GeneratedStacks ==
    {<<>>} \cup {<<b>> : b \in GeneratedBlocks}
    \cup {<<e, b>> : e \in EarlierBlocks, b \in MotionBlocks \cup YieldingCommands}

\* this.script: isProcedure scripts are the procedure p
GeneratedScripts ==
    {[stack |-> s, yields |-> y, isWarp |-> w, isProcedure |-> p, warpTimer |-> t,
      procedureCode |-> IF p THEN "p" ELSE ""] :
     s \in GeneratedStacks, y \in BOOLEAN, w \in BOOLEAN, p \in BOOLEAN, t \in BOOLEAN}
\* this.ir.procedures: p yields as the script compiled does when that is p;
\* the variant r is missing
ProcedureData(compiled) ==
    {[p |-> [stackIsNull |-> FALSE,
             yields |-> IF compiled.isProcedure THEN compiled.yields ELSE py],
      q |-> [stackIsNull |-> qn, yields |-> qy]] :
     py \in BOOLEAN, qn \in BOOLEAN, qy \in BOOLEAN}

InitGen ==
    /\ OthersIdle
    /\ lowered = Idle
    /\ literal = Idle
    /\ joined = Idle
    /\ \E compiled \in GeneratedScripts : \E table \in ProcedureData(compiled) :
           gen = [stage |-> "descend", ir |-> [script |-> compiled, procedures |-> table],
                  i |-> 1, g |-> NewGenerator, emitted |-> <<>>, factory |-> <<>>]

\* one iteration of the for loop of descendStack(this.script.stack, new Frame(false))
GenDescendStackedBlock ==
    /\ gen.stage = "descend"
    /\ gen.i <= Len(gen.ir.script.stack)
    /\ \E g \in {descendStackedBlock(gen.g, gen.ir.script.stack[gen.i],
                     <<Frame(FALSE, gen.i = Len(gen.ir.script.stack))>>, gen.ir)} :
           gen' = [gen EXCEPT !.stage = IF g.thrown THEN "thrown" ELSE "descend",
                              !.i = @ + 1,
                              !.g = g,
                              !.emitted = SubSeq(g.source, Len(gen.g.source) + 1,
                                                 Len(g.source))]
    /\ UNCHANGED <<optimizerVars, arith, casting, mono, lowered, literal, joined>>

\* createScriptFactory, once the stack is compiled
GenCreateScriptFactory ==
    /\ gen.stage = "descend"
    /\ gen.i > Len(gen.ir.script.stack)
    /\ gen' = [gen EXCEPT !.stage = "compiled",
                          !.factory = createScriptFactory(gen.g.source, gen.ir.script)]
    /\ UNCHANGED <<optimizerVars, arith, casting, mono, lowered, literal, joined>>

NextGen == GenDescendStackedBlock \/ GenCreateScriptFactory
SpecGen == InitGen /\ [][NextGen]_vars

(***************************************************************************)
(* The claims.                                                             *)
(***************************************************************************)
AllAny(s) == \A v \in Vars : getVariableType(s, v) = ANY
Evaluated == arith.stage \in {"evaluated", "rewritten"}

\* C1: after analyzeStack has processed a stack block whose yields flag is
\* true, every variable's type in the threaded state is ANY.
C1_YieldClearsState ==
    (last.op = "analyze" /\ last.block.yields) => AllAny(state)

\* C2: for OP_ADD and OP_SUBTRACT on operands of any two NUMBER atoms the
\* atom of the runtime result is in the analyzed type, and when the result
\* is NaN the CAST_NUMBER around the operation is kept by the rewriter.
C2_AddSubtractSound ==
    (Evaluated /\ arith.opcode \in {"OP_ADD", "OP_SUBTRACT"}) =>
        /\ AtomOf(arith.value) \in arith.type
        /\ (arith.stage = "rewritten" /\ arith.value = NaN) =>
                /\ arith.rewritten.opcode = "CAST_NUMBER"
                /\ arith.rewritten.inputs[1].opcode = arith.opcode

C2_Witness ==
    /\ arith.stage = "rewritten"
    /\ arith.opcode = "OP_ADD"
    /\ arith.left = PosInf
    /\ arith.right = NegInf
    /\ arith.value = NaN
    /\ "NAN" \in arith.type
    /\ arith.rewritten.opcode = "CAST_NUMBER"

\* C3: for OP_MULTIPLY on operands of any two NUMBER atoms the atom of the
\* runtime product is in the analyzed type, and the type is never empty.
C3_MultiplySound ==
    (Evaluated /\ arith.opcode = "OP_MULTIPLY") =>
        /\ AtomOf(arith.value) \in arith.type
        /\ arith.type # {}

\* C4: for OP_DIVIDE on operands of any two NUMBER atoms the atom of the
\* runtime quotient is in the analyzed type, and for the constants 1 / 0 the
\* type is POS_INF without NAN.
C4_DivideSound ==
    (Evaluated /\ arith.opcode = "OP_DIVIDE") =>
        /\ AtomOf(arith.value) \in arith.type
        /\ (arith.left = One /\ arith.right = PosZero) =>
                ("POS_INF" \in arith.type /\ "NAN" \notin arith.type)

\* the input a cast input's target is rewritten to
RewrittenInner == optimizeInput(casting.inner, casting.state)
\* optimizeInput returned the inner node in place of the cast
CastDropped == casting.result = RewrittenInner
\* optimizeInput returned the cast node itself
CastKept ==
    /\ casting.result.opcode = casting.opcode
    /\ casting.result.type = casting.input.type
    /\ casting.result.inputs = <<RewrittenInner>>

\* C5: for every cast opcode CAST_T and every TypeState, optimizeInput
\* returns the inner node if the analyzer's type of inner is a subset of T
\* and the cast node itself otherwise.
C5_EveryCastDroppedIffSubset ==
    casting.stage = "rewritten" =>
        IF analyzeInputBlock(casting.inner, casting.state)
               \subseteq CastTarget(casting.opcode)
        THEN CastDropped ELSE CastKept

\* C5 (amended): for CAST_NUMBER and CAST_NUMBER_OR_NAN, optimizeInput
\* returns the rewritten inner node if the analyzer's type of it is a subset
\* of T and the cast node itself otherwise; a cast node of any other cast
\* opcode is returned itself.
C5_NumberCastDroppedIffSubset ==
    casting.stage = "rewritten" =>
        IF /\ casting.opcode \in {"CAST_NUMBER", "CAST_NUMBER_OR_NAN"}
           /\ analyzeInputBlock(RewrittenInner, casting.state)
                  \subseteq CastTarget(casting.opcode)
        THEN CastDropped ELSE CastKept

C5_Witness ==
    /\ casting.stage = "rewritten"
    /\ casting.opcode = "CAST_NUMBER"
    /\ casting.inner = VarGet("x")
    /\ casting.state["x"] = NUMBER_POS
    /\ casting.result.opcode = "VAR_GET"

\* a stack without the entryState and exitState annotations of its blocks
RECURSIVE Unannotated(_)
Unannotated(stack) ==
    [i \in DOMAIN stack |->
        [stack[i] EXCEPT
            !.entryState = Undefined, !.exitState = Undefined,
            !.stacks = [j \in DOMAIN stack[i].stacks |->
                           Unannotated(stack[i].stacks[j])]]]

\* C6: a second optimize() leaves every input tree with the structure,
\* opcodes and type fields it had after the first.
C6_Idempotent ==
    (phase = "done" /\ run = 2) =>
        /\ Unannotated(entry) = Unannotated(first.entry)
        /\ \A p \in DOMAIN procedures :
               Unannotated(procedures[p]) = Unannotated(first.procedures[p])

\* C7: analyzeStackBlock is monotone: started from a state that gives every
\* variable a superset of its type in another state, it ends in a state that
\* gives every variable a superset of the type it ends with from the other.
C7_Monotone ==
    mono.stage = "analyzed" => Below(mono.fromSmall, mono.fromLarge)

\* C8: the do-while of analyzeLoopedStack for a non-yielding loop stops, and
\* it analyzes the body at most |atoms| * |vars| times.
C8_LoopBound == ~loops.over /\ ~loops.stuck

\* C8 (amended): the do-while of analyzeLoopedStack for a non-yielding loop
\* stops, and it analyzes the body at most |atoms| * |vars| + 1 times.
C8_LoopBoundPlusOne == ~loops.over1 /\ ~loops.stuck

C8_Witness ==
    /\ last.op = "analyze"
    /\ last.block.opcode \in LoopOpcodes
    /\ ~last.block.yields
    /\ AssignedVars(last.block.stacks[1]) # {}
    /\ loops.runs >= 2
    /\ ~loops.stuck

\* the block the last step processed, as the step left it
Processed == CurrentStack[idx - 1]
AnalyzedLoop ==
    last.op = "analyze" /\ last.block.opcode \in LoopOpcodes /\ ~last.block.yields
\* the input is the read of y under a CAST_NUMBER
IsCastOfY(input) ==
    /\ input.opcode = "CAST_NUMBER"
    /\ input.inputs[1].opcode = "VAR_GET"
    /\ input.inputs[1].variable = "y"
\* a non-yielding loop whose body is: set y to (y + 1), y read under a cast
IsIncrLoop(block) ==
    /\ block.opcode \in LoopOpcodes
    /\ ~block.yields
    /\ Len(block.stacks[1]) = 1
    /\ block.stacks[1][1].opcode = "VAR_SET"
    /\ block.stacks[1][1].variable = "y"
    /\ block.stacks[1][1].inputs[1].opcode = "OP_ADD"
    /\ IsCastOfY(block.stacks[1][1].inputs[1].inputs[1])
    /\ block.stacks[1][1].inputs[1].inputs[2].opcode = "CONSTANT"

\* C9: when analyzeLoopedStack returns for a loop that does not yield, the
\* state includes the pre-loop state, analyzing the body once more on a copy
\* and joining it back changes nothing, and block.entryState is that state;
\* for a loop that sets y to y + 1 while y was STRING before it, y has
\* STRING and number atoms at the loop head and the rewriter keeps the
\* CAST_NUMBER around the read of y in the body.
C9_LoopFixedPoint ==
    /\ AnalyzedLoop =>
        /\ Below(last.pre, state)
        /\ LET r == analyzeStack(Processed.stacks[1], TypeStateClone(state))
               o == TypeStateOr(state, r.state)
           IN  ~o.modified /\ o.state = state
        /\ Processed.entryState = state
        /\ (IsIncrLoop(last.block) /\ last.pre["y"] = STRING_TYPE) =>
                /\ STRING_TYPE \subseteq state["y"]
                /\ Has(state["y"], NUMBER)
    /\ (/\ last.op = "optimize"
        /\ IsIncrLoop(last.block)
        /\ before[idx - 1]["y"] = STRING_TYPE) =>
            IsCastOfY(Processed.stacks[1][1].inputs[1].inputs[1])

C9_Witness ==
    /\ last.op = "optimize"
    /\ IsIncrLoop(last.block)
    /\ before[idx - 1]["y"] = STRING_TYPE
    /\ Processed.entryState["y"] = STRING_TYPE \cup (NUMBER_OR_NAN \ NUMBER_NEG_ZERO)
    /\ IsCastOfY(Processed.stacks[1][1].inputs[1].inputs[1])

\* the variables that no block of stack[from..to] assigns
Unassigned(stack, from, to) ==
    Vars \ AssignedVars([i \in 1..(to - from + 1) |-> stack[from + i - 1]])

\* the variables read by an input
RECURSIVE ReadVars(_)
ReadVars(input) ==
    (IF input.opcode = "VAR_GET" THEN {input.variable} ELSE {})
    \cup UNION {ReadVars(input.inputs[i]) : i \in DOMAIN input.inputs}
\* the state under which optimizeStack rewrote the inputs of the last block
Entered ==
    IF last.block.entryState # Undefined THEN last.block.entryState ELSE last.pre

\* C10: after the analyzer processes a PROCEDURE_CALL every variable's type
\* is ANY, and the rewriter rewrites the inputs of each block after the call
\* under a state in which every variable that the block reads and that was
\* not assigned since the call is ANY.
C10_CallClearsState ==
    /\ (last.op = "analyze" /\ last.block.opcode = "PROCEDURE_CALL") =>
            AllAny(state)
    /\ last.op = "optimize" =>
            \A k \in 1..(idx - 2) :
                CurrentStack[k].opcode = "PROCEDURE_CALL" =>
                    \A v \in Unassigned(CurrentStack, k + 1, idx - 2) :
                        v \in UNION {ReadVars(last.block.inputs[i]) :
                                        i \in DOMAIN last.block.inputs}
                            => getVariableType(Entered, v) = ANY

\* C11: after the analyzer processes a COMPATIBILITY_LAYER, ADDON_CALL or
\* EVENT_BROADCAST_AND_WAIT block every variable's type is ANY, whatever the
\* block's yields flag is.
C11_OpaqueBlockClearsState ==
    (last.op = "analyze" /\ last.block.opcode \in OpaqueOpcodes) => AllAny(state)


\* C18: getNumberInputType gives every number literal the single atom that
\* characterizes it: NAN, POS_INF, NEG_INF, ZERO for +0, NEG_ZERO for -0, and
\* POS_INT, POS_FRACT, NEG_INT or NEG_FRACT for the other numbers.
C18_NumberTypeIsExactAtom ==
    (literal.stage = "built" /\ IsNumber(literal.value))
        => literal.input.type = {AtomOf(literal.value)}

\* the cast to a type as the casting semantics define it
CastSemantics(value, targetType) ==
    CASE targetType = NUMBER_OR_NAN -> JsToNumber(value)
      [] targetType = NUMBER ->
            IF JsToNumber(value) = NaN THEN PosZero ELSE JsToNumber(value)
      [] targetType = STRING_TYPE -> JsToString(value)
      [] OTHER -> JsToBoolean(value)
\* a type characterizes a literal exactly
Characterizes(type, value) ==
    CASE IsNumber(value) -> type = {AtomOf(value)}
      [] value.k = "bool" -> type = BOOLEAN_TYPE
      [] OTHER -> type \in {STRING_TYPE, STRING_NUM}

\* C19: toType(T) on a constant that is not always T stores the cast of the
\* literal (NUMBER_OR_NAN turns a non-numeric literal into NaN, NUMBER turns NaN
\* into 0 and keeps -0, STRING and BOOLEAN coerce) and types the constant by
\* what exactly characterizes the new literal.
C19_ConstantCastAtBuildTime ==
    (literal.stage = "cast" /\ ~IsAlways(literal.input.type, literal.target))
        => /\ ~literal.result.thrown
           /\ literal.result.input.opcode = "CONSTANT"
           /\ literal.result.input.value
                  = CastSemantics(literal.input.value, literal.target)
           /\ Characterizes(literal.result.input.type, literal.result.input.value)


Contains(source, piece) == \E i \in 1..Len(source) : source[i] = piece
EqualsForm(result) ==
    IF result.thrown THEN "thrown"
    ELSE IF result.source[1] = "compareEqual(" THEN "compareEqual"
    ELSE IF Contains(result.source, ".toLowerCase() === ") THEN "strings"
    ELSE IF Contains(result.source, " === ") THEN "numbers"
    ELSE "other"
LoweredEquals == lowered.stage = "lowered" /\ lowered.input.opcode = "OP_EQUALS"
LeftOperand == lowered.input.inputs[1]
RightOperand == lowered.input.inputs[2]
AlwaysNumeric(input) == IsAlways(input.type, NUMBER_INTERPRETABLE)
NeverNumeric(input) == ~IsSometimes(input.type, NUMBER_INTERPRETABLE)

\* C14: OP_EQUALS of two always numeric operands is lowered to === on their
\* numeric coercions, and OP_EQUALS with at least one never numeric operand to
\* the comparison of the lowercased string coercions, not to a numeric === and
\* not to compareEqual.
C14_EqualsFormFromTypes ==
    LoweredEquals =>
        /\ (AlwaysNumeric(LeftOperand) /\ AlwaysNumeric(RightOperand))
               => EqualsForm(lowered.result) = "numbers"
        /\ (NeverNumeric(LeftOperand) \/ NeverNumeric(RightOperand))
               => EqualsForm(lowered.result) = "strings"

\* C15: with nullish coalescing LIST_GET is lowered without error: an index
\* that is always a number or NaN gives (list.value[idx - 1] ?? ""), the
\* constant "last" gives (list.value[list.value.length - 1] ?? ""), any other
\* index gives the listGet helper call.
C15_ListGetLowers ==
    (lowered.stage = "lowered" /\ lowered.input.opcode = "LIST_GET" /\ lowered.env)
        => /\ ~lowered.result.thrown
           /\ IF IsAlways(lowered.input.inputs[1].type, NUMBER_OR_NAN)
              THEN Contains(lowered.result.source, " - 1] ?? \"\")")
              ELSE IF isConstant(lowered.input.inputs[1], Str("last"))
              THEN Contains(lowered.result.source, ".value.length - 1] ?? \"\")")
              ELSE lowered.result.source[1] = "listGet("

\* converting a literal to a number and back to a string reproduces it
RoundTrips(value) == JsToString(JsToNumber(value)) = JsToString(value)
SafeByRoundTrip(input) ==
    /\ input.opcode = "CONSTANT"
    /\ ~IsZero(JsToNumber(input.value))
    /\ RoundTrips(input.value)

\* C20: when the operands are not both always numeric, OP_EQUALS is lowered to
\* === only if one operand is a constant that is not zero and that the round
\* trip through a number reproduces; "1.0" and zero are not safe.
C20_SafeConstantRoundTrips ==
    (/\ LoweredEquals
     /\ ~(AlwaysNumeric(LeftOperand) /\ AlwaysNumeric(RightOperand))
     /\ EqualsForm(lowered.result) = "numbers")
        => SafeByRoundTrip(LeftOperand) \/ SafeByRoundTrip(RightOperand)


\* the pieces of emitted text that hold a yield or a yield*
YieldPieces ==
    {"yield;\n", "if (isStuck()) yield;\n", "retire(); yield;\n", "yield* ",
     "yield* executeInCompatibilityLayer(", "yield* executeInCompatibilityLayer({",
     "yield* waitThreads(startHats("}
HasYield(source) == \E i \in 1..Len(source) : source[i] \in YieldPieces

\* C12: the body of every script that compile() lowers contains a yield or a
\* yield* if and only if script.yields is true, and a script with yields false
\* is emitted as a plain function without any yield.
C12_YieldIffFlag ==
    gen.stage = "compiled" =>
        /\ HasYield(gen.g.source) <=> gen.ir.script.yields
        /\ ~gen.ir.script.yields
               => /\ Contains(gen.factory, "function ")
                  /\ ~HasYield(gen.factory)

\* C13: once a yield has been emitted into a script whose yields flag is false
\* the compilation has thrown, whichever block emitted it.
C13_YieldWithoutFlagThrows ==
    (~gen.ir.script.yields /\ HasYield(gen.g.source)) => gen.stage = "thrown"

RECURSIVE InputHasMod(_)
InputHasMod(input) ==
    \/ input.opcode = "OP_MOD"
    \/ \E k \in 1..Len(input.inputs) : InputHasMod(input.inputs[k])
BlockHasMod(block) == \E k \in 1..Len(block.inputs) : InputHasMod(block.inputs[k])
MotionOpcodes == {"MOTION_X_SET", "MOTION_Y_SET", "MOTION_XY_SET"}
LastBlock == gen.ir.script.stack[gen.i - 1]
\* the block compiled last is a motion block at the top of the script
MotionLowered ==
    /\ gen.stage \in {"descend", "compiled"}
    /\ gen.i > 1
    /\ LastBlock.opcode \in MotionOpcodes
ClearsInterpolation ==
    Contains(gen.emitted,
             "if (target.interpolationData) target.interpolationData = null;\n")

\* C16: the code emitted for a MOTION_X_SET, MOTION_Y_SET or MOTION_XY_SET block
\* sets target.interpolationData to null exactly when an OP_MOD was lowered
\* before the end of the block, in its own inputs or in an earlier block.
C16_ModAnywhereBefore ==
    MotionLowered =>
        (ClearsInterpolation
            <=> \E j \in 1..(gen.i - 1) : BlockHasMod(gen.ir.script.stack[j]))

\* C16, amended: the code emitted for a MOTION_X_SET, MOTION_Y_SET or
\* MOTION_XY_SET block sets target.interpolationData to null exactly when an
\* OP_MOD is lowered inside the block's own x or y input; an OP_MOD of an
\* earlier block has no effect.
C16_ModInOwnInputs ==
    MotionLowered => (ClearsInterpolation <=> BlockHasMod(LastBlock))
C16_Witness ==
    /\ MotionLowered
    /\ gen.ir.script.stack = <<SetNum("y"), Motion("MOTION_XY_SET", <<Constant(One), ModOfX>>)>>
    /\ gen.i = 3
    /\ ClearsInterpolation


\* the state at the end of a branch analyzed from the state before the block
BranchEnd(k) == analyzeStack(last.block.stacks[k], last.pre).state

\* C21: after analyzeStackBlock processes a CONTROL_IF_ELSE the type of every
\* variable in the threaded state includes the type it has at the end of the
\* true branch and the type it has at the end of the false branch.
C21_IfElseJoinsBothBranches ==
    (last.op = "analyze" /\ last.block.opcode = "CONTROL_IF_ELSE") =>
        \A v \in Vars :
            /\ getVariableType(BranchEnd(1), v) \subseteq getVariableType(state, v)
            /\ getVariableType(BranchEnd(2), v) \subseteq getVariableType(state, v)

\* every variable's type in a is within its type in r
Superset(r, a) ==
    \A v \in Vars : getVariableType(a, v) \subseteq getVariableType(r, v)

\* the states from which the do-while of analyzeLoopedStack analyzes the body,
\* the n-th iteration starting from s
RECURSIVE IterationStates(_, _, _)
IterationNext(stack, o, n) ==
    IF o.modified /\ n + 1 < MaxIter
    THEN IterationStates(stack, o.state, n + 1) ELSE {}
IterationStates(stack, s, n) ==
    {s} \cup IterationNext(stack, TypeStateOr(s, analyzeStack(stack, s).state), n)

\* the states from which the analyzer, reaching the block in state pre,
\* starts a visit of the block's nested stacks
VisitStarts(block, pre) ==
    CASE block.opcode \in LoopOpcodes /\ block.yields -> {TypeStateClear(pre).state}
      [] block.opcode \in LoopOpcodes /\ ~block.yields ->
            IterationStates(block.stacks[1], pre, 0)
      [] block.opcode = "CONTROL_IF_ELSE" -> {pre}
      [] OTHER -> {}

\* the state optimizeStack carries out of the i-th block of a stack entered
\* with state e
RECURSIVE CarriedOut(_, _, _)
CarriedOut(stack, e, i) ==
    IF i = 0 THEN e
    ELSE optimizeStackStep(stack[i], CarriedOut(stack, e, i - 1)).state

\* the analyzer's threaded state after the i-th block of a stack visited from s
AnalyzerAfter(stack, s, i) == analyzeStack(SubSeq(stack, 1, i), s).state

\* the analyzer's state after the block the rewriter processed last
AfterLast == IF idx - 1 < Len(before) THEN before[idx] ELSE state

\* on a visit from s of a stack the rewriter enters with e, each block whose
\* carried-in state covers the analyzer's has a carried-out state that does
CarriesSupersets(stack, e, s) ==
    \A i \in 1..Len(stack) :
        Superset(CarriedOut(stack, e, i - 1), AnalyzerAfter(stack, s, i - 1))
            => Superset(CarriedOut(stack, e, i), AnalyzerAfter(stack, s, i))

\* C22: the state the rewriter carries out of a stack block gives every
\* variable a superset of the type the analyzer's threaded state held just
\* after that block on every visit of the block, every iteration of an
\* enclosing loop included, provided the state carried into the block was
\* such a superset of the analyzer's state before it.
C22_RewriterStateCoversAnalyzer ==
    last.op = "optimize" =>
        /\ Superset(last.pre, before[idx - 1]) => Superset(ostate, AfterLast)
        /\ \A j \in DOMAIN last.block.stacks :
               \A s \in VisitStarts(last.block, before[idx - 1]) :
                   CarriesSupersets(last.block.stacks[j], Entered, s)

\* optimizeStack has just rewritten the first block of a script
FirstBlockRewritten == last.op = "optimize" /\ idx = 2

\* C23: optimize() rewrites the inputs of the first block of a script under
\* the state that holds at script entry: every variable has, while the first
\* block is rewritten, at least the type the analyzer started the script
\* with, so a variable assigned only in a later block is still ANY and a cast
\* around a read of it is kept.
C23_FirstBlockUnderEntryState ==
    FirstBlockRewritten => Superset(Entered, before[1])

\* C24: optimize() starts the analysis of every procedure variant of
\* entry.dependedProcedures, and afterwards of the entry script, from a state
\* in which every variable is ANY.
C24_EachScriptStartsFromAny ==
    (phase = "analyze" /\ idx = 1) => AllAny(state)

\* the types analyzeInputBlock computes for the target of the cast and for
\* the cast node itself
CastTargetType == analyzeInputBlock(casting.inner, casting.state)
CastNodeType == analyzeInputBlock(casting.input, casting.state)
\* a type restricted to the number atoms, NAN replaced by ZERO
NanToZero(type) ==
    (type \cap NUMBER) \cup (IF Has(type, NUMBER_NAN) THEN NUMBER_ZERO ELSE {})

\* C25: the type analyzeInputBlock computes for a cast node lies within the
\* cast's target: for CAST_NUMBER it is the type of the target restricted to
\* the number atoms with NAN replaced by ZERO, or NUMBER when the target has
\* no number atom; for CAST_NUMBER_OR_NAN it is the type of the target
\* restricted to NUMBER_OR_NAN, or NUMBER_OR_NAN when that is empty.
C25_CastTypeWithinTarget ==
    casting.stage = "rewritten" =>
        /\ casting.opcode = "CAST_NUMBER" =>
                CastNodeType = (IF Has(CastTargetType, NUMBER)
                                THEN NanToZero(CastTargetType) ELSE NUMBER)
        /\ casting.opcode = "CAST_NUMBER_OR_NAN" =>
                CastNodeType = (IF Has(CastTargetType, NUMBER_OR_NAN)
                                THEN CastTargetType \cap NUMBER_OR_NAN
                                ELSE NUMBER_OR_NAN)

\* the analyzer has just processed a CONTROL_FOR that does not yield
AnalyzedFor ==
    last.op = "analyze" /\ last.block.opcode = "CONTROL_FOR" /\ ~last.block.yields

\* C26: the analyzer accounts for the write of the counter to the loop
\* variable at the start of every iteration of a CONTROL_FOR: inside the body
\* and after a CONTROL_FOR that does not yield the type of the loop variable
\* includes the positive-integer atom.
C26_ForWritesLoopVariable ==
    AnalyzedFor =>
        /\ NUMBER_POS_INT \subseteq
                getVariableType(Processed.entryState, last.block.variable)
        /\ NUMBER_POS_INT \subseteq getVariableType(state, last.block.variable)

\* the block compiled last, at the top of the script, was lowered
Lowered(opcodes) ==
    /\ gen.stage \in {"descend", "compiled"}
    /\ gen.i > 1
    /\ LastBlock.opcode \in opcodes
\* the piece is emitted somewhere between the two others
EmittedBetween(opening, piece, closing) ==
    \E i, j, k \in 1..Len(gen.emitted) :
        /\ i < j /\ j < k
        /\ gen.emitted[i] = opening
        /\ gen.emitted[j] = piece
        /\ gen.emitted[k] = closing

\* C27: the code emitted for a CONTROL_WAIT, in a warp script as in any
\* other, has an unconditional yield between the statement that sets
\* thread.timer and the loop that waits for the timer.
C27_WaitYieldsOnce ==
    Lowered({"CONTROL_WAIT"}) =>
        EmittedBetween("thread.timer = timer();\n", "yield;\n",
                       "while (thread.timer.timeElapsed() < a) {\n")

\* the piece emitted last before the brace that closes the loop
BodyEnd == gen.emitted[Len(gen.emitted) - 1]
\* the warp timer applies to the loop compiled last: script.warpTimer, or
\* node.warpTimer of a CONTROL_WHILE
TimerOn ==
    \/ gen.ir.script.warpTimer
    \/ LastBlock.opcode = "CONTROL_WHILE" /\ LastBlock.variable = "warpTimer"

CallCompiled ==
    /\ gen.stage \in {"descend", "compiled", "thrown"}
    /\ gen.i > 1
    /\ LastBlock.opcode = "PROCEDURE_CALL"
Aborted == gen.stage = "thrown"
Callee == gen.ir.procedures[LastBlock.variable]
DirectRecursion ==
    ~gen.ir.script.isWarp /\ LastBlock.variable = gen.ir.script.procedureCode

\* C29: a PROCEDURE_CALL is emitted with yield* if and only if the callee
\* yields, and compiling such a call in a script whose yields flag is false
\* aborts; a call of the enclosing procedure in a script that is not warp is
\* preceded by an unconditional yield; a call of a variant missing from
\* ir.procedures aborts the compilation; a call of a procedure whose stack is
\* null emits no code.
C29_ProcedureCallLowering ==
    CallCompiled =>
        IF LastBlock.variable \notin DOMAIN gen.ir.procedures THEN Aborted
        ELSE IF Callee.stackIsNull THEN ~Aborted /\ gen.emitted = <<>>
        ELSE /\ (Callee.yields /\ ~gen.ir.script.yields) => Aborted
             /\ ~Aborted =>
                    /\ Contains(gen.emitted, "yield* ") <=> Callee.yields
                    /\ Contains(gen.emitted, "thread.procedures[")
                    /\ DirectRecursion => gen.emitted[1] = "yield;\n"
C29_Witness ==
    /\ CallCompiled
    /\ ~Aborted
    /\ DirectRecursion
    /\ Callee.yields
    /\ gen.emitted = <<"yield;\n", "yield* ", "thread.procedures[", "p", "](", ");\n">>
\* a call of the missing variant r has aborted the compilation
C29_MissingVariantAborts ==
    /\ CallCompiled
    /\ LastBlock.variable = "r"
    /\ Aborted

\* C30: code generation does not change the IR: after descendInput returns,
\* the input and every input below it have the opcode, the type and the
\* constant value they had before, so lowering the same input twice yields
\* the same text.
C30_LoweringKeepsIR ==
    /\ lowered.stage \in {"lowered", "relowered"} => lowered.ir = lowered.input
    /\ lowered.stage = "relowered" => lowered.again = lowered.result

====
